---- MODULE Spec2Model ----
(***************************************************************************)
(* A model of the map poster generator: the disk cache (cache.py), the     *)
(* rate-limited geocoder (geocoding.py) and data fetcher                   *)
(* (data_fetching.py), the theme store (theme.py) and the orchestrator     *)
(* (create_map_poster.py).                                                 *)
(*                                                                         *)
(* Time is counted in ticks of 0.1 s.  Python's None is the value NoneV;   *)
(* an Optional[float] timestamp is a sequence of length 0 (None) or 1.     *)
(* Strings the code inspects character by character (names, keys, colors)  *)
(* are sequences of one-character strings.                                 *)
(***************************************************************************)
EXTENDS Integers, Sequences, FiniteSets, TLC

VARIABLES
    files,                  \* cache directory: file name -> bytes written so far
    cret,                   \* the last CacheManager operation and what it returned
    stored,                 \* history: key -> value of the last successful set since clear
    written,                \* history: key -> the values that sets have written completely since clear
    set_failed,             \* history: some set of the CacheManager raised CacheError
    now,                    \* time.time(), in ticks
    last_request_time,      \* NominatimGeocoder.last_request_time
    last_graph_request,     \* OSMDataFetcher.last_graph_request
    last_features_request,  \* OSMDataFetcher.last_features_request
    thr,                    \* per thread: the frame of the geocode/fetch call it runs
    issued,                 \* history: per request class, when its provider requests were issued
    starts,                 \* history: per request class, when its latest calls without a cache hit began
    request_failed,         \* history: some provider request failed or found nothing
    ncalls,                 \* number of calls and operations started so far
    fad,                    \* the running fetch_all_data: its arguments and what its await gave
    themes_dir,             \* themes directory: theme name (file stem) -> content of <name>.json
    tret,                   \* the last ThemeManager operation and what it returned
    gen,                    \* the frame of the running (or last) generate_poster
    batch,                  \* the frame of the running (or last) generate_all_themes
    posters,                \* output directory: the paths of the posters written
    fn,                     \* a function applied on its own: its name, arguments and result
    cop,                    \* per thread: the CacheManager operation it runs, step by step
    cli                     \* the run of main(): its command line and its exit status

cacheVars == <<files, cret, stored, written, set_failed>>
limiterVars == <<last_request_time, last_graph_request, last_features_request>>
fetchVars == <<now, limiterVars, thr, issued, starts, request_failed>>
themeVars == <<themes_dir, tret>>
posterVars == <<gen, batch, posters>>
unitVars == <<fn, cop, cli>>
appVars == <<fad, themeVars, posterVars, unitVars>>
vars == <<cacheVars, fetchVars, ncalls, appVars>>

----------------------------------------------------------------------------
(* Bounds of the model. *)

\* Largest integer a cached payload holds.
MaxPayload == 1
\* Number of calls (CacheManager operations, geocode/fetch calls) in one run.
MaxCalls == 3
\* Bytes of a pickle that an interrupted write may leave behind, at most.
MaxCut == 1
\* Longest pause between two calls, in ticks.
MaxGap == 11
\* time.sleep may return later than asked, by at most this many ticks.
MaxOversleep == 1
\* Number of writes in which a set hands its pickle to the file, at most.
MaxWrites == 2
\* Bytes that a write which does not finish the pickle hands over, at most.
MaxPiece == 4

----------------------------------------------------------------------------
(* Python values and their pickle encoding (cache.py, pickle.dump/load).   *)

NoneV == [t |-> "None", v |-> <<>>]
IntV(n) == [t |-> "int", v |-> <<n>>]
\* A float, given by the eight bytes of its IEEE 754 double, high byte first.
FloatV(b) == [t |-> "float", v |-> b]
\* (float(a), float(b)) for whole numbers a and b: a pair of coordinates.
TupleV(a, b) == [t |-> "tuple", v |-> <<a, b>>]

\* Opcodes of the pickle format that the payloads of the model need.
OP_PROTO == 128
OP_FRAME == 149
OP_STOP == 46
OP_NONE == 78
OP_BININT1 == 75
OP_BINFLOAT == 71
OP_TUPLE2 == 134
OP_MEMOIZE == 148
HIGHEST_PROTOCOL == 5
\* The pickler frames a payload of at least this many bytes.
FRAME_SIZE_MIN == 4

\* The whole numbers whose double has a mantissa of four bits at most.
WholeFloats == 0 .. 31

\* floor(log2(n)) for n in 1 .. 31
log2(n) == IF n < 2 THEN 0 ELSE IF n < 4 THEN 1 ELSE IF n < 8 THEN 2
           ELSE IF n < 16 THEN 3 ELSE 4

\* 2 ** e
RECURSIVE pow2(_)
pow2(e) == IF e = 0 THEN 1 ELSE 2 * pow2(e - 1)

\* struct.pack(">d", float(n)) for n in WholeFloats: sign and exponent in the
\* first twelve bits, then the mantissa.
float_bytes(n) ==
    IF n = 0 THEN <<0, 0, 0, 0, 0, 0, 0, 0>>
    ELSE LET e == log2(n)
             biased == 1023 + e
             mantissa == ((n - pow2(e)) * 16) \div pow2(e)
         IN <<biased \div 16, (biased % 16) * 16 + mantissa, 0, 0, 0, 0, 0, 0>>

\* The eight bytes are those of a float holding a whole number of WholeFloats.
is_whole(b) == \E n \in WholeFloats : float_bytes(n) = b
whole_of(b) == CHOOSE n \in WholeFloats : float_bytes(n) = b

\* The opcodes that push one item.
item_code(x) ==
    CASE x.t = "None" -> <<OP_NONE>>
      [] x.t = "int" -> <<OP_BININT1, x.v[1]>>
      [] x.t = "float" -> <<OP_BINFLOAT>> \o x.v
      [] x.t = "tuple" ->
           <<OP_BINFLOAT>> \o float_bytes(x.v[1]) \o
           <<OP_BINFLOAT>> \o float_bytes(x.v[2]) \o <<OP_TUPLE2>>
      [] OTHER -> x.v \o <<OP_TUPLE2>>

\* The tuple (x, y): a pair of coordinates, or any other pair, given by the
\* opcodes that push its two items.
make_tuple(x, y) ==
    IF x.t = "float" /\ y.t = "float" /\ is_whole(x.v) /\ is_whole(y.v)
    THEN TupleV(whole_of(x.v), whole_of(y.v))
    ELSE [t |-> "pair", v |-> item_code(x) \o item_code(y)]

\* struct.pack("<Q", n) for n < 65536
le8(n) == <<n % 256, n \div 256, 0, 0, 0, 0, 0, 0>>

\* The pickler's framing: a payload of FRAME_SIZE_MIN bytes or more is
\* preceded by FRAME and its length.
framed(payload) ==
    IF Len(payload) >= FRAME_SIZE_MIN
    THEN <<OP_FRAME>> \o le8(Len(payload)) \o payload
    ELSE payload

\* A pickler that writes the two items of a pair in the wrong order.
pickle_dump_swapped(value) ==
    <<OP_PROTO, HIGHEST_PROTOCOL>> \o
    framed(CASE value.t = "None" -> <<OP_NONE, OP_STOP>>
             [] value.t = "int" -> <<OP_BININT1, value.v[1], OP_STOP>>
             [] value.t = "tuple" ->
                  <<OP_BINFLOAT>> \o float_bytes(value.v[2]) \o
                  <<OP_BINFLOAT>> \o float_bytes(value.v[1]) \o
                  <<OP_TUPLE2, OP_MEMOIZE, OP_STOP>>)

\* pickle.dump(value, f, protocol=HIGHEST_PROTOCOL): the bytes of the pickle.
\* A tuple is memoized, None and the numbers are not.
pickle_dump(value) ==
    <<OP_PROTO, HIGHEST_PROTOCOL>> \o
    framed(CASE value.t = "None" -> <<OP_NONE, OP_STOP>>
             [] value.t = "int" -> <<OP_BININT1, value.v[1], OP_STOP>>
             [] value.t = "tuple" ->
                  <<OP_BINFLOAT>> \o float_bytes(value.v[1]) \o
                  <<OP_BINFLOAT>> \o float_bytes(value.v[2]) \o
                  <<OP_TUPLE2, OP_MEMOIZE, OP_STOP>>)

\* What the unpickler makes of the bytes it has: a value; an error (more = 0);
\* or, with the input run out, the number of bytes it has consumed (at) and
\* the number it must have to go on (more).
Loaded(val) == [ok |-> TRUE, val |-> val, at |-> 0, more |-> 0]
Unpicklable == [ok |-> FALSE, val |-> NoneV, at |-> 0, more |-> 0]
RanOut(at, more) == [ok |-> FALSE, val |-> NoneV, at |-> at, more |-> more]

\* The length a FRAME announces in the eight bytes after position i; a length
\* of 65536 or more is beyond every file of the model.
frame_len(bytes, i) ==
    IF \E k \in 3 .. 8 : bytes[i + k] # 0 THEN 65536
    ELSE bytes[i + 1] + 256 * bytes[i + 2]

\* The unpickler's loop: read one opcode at position i with the stack so far.
\* An unknown opcode, an unsupported protocol or a stack underflow is an error.
RECURSIVE unpickle(_, _, _)
unpickle(bytes, i, stack) ==
    IF i > Len(bytes) THEN RanOut(i - 1, i)
    ELSE LET op == bytes[i] IN
      CASE op = OP_PROTO ->
             IF i + 1 > Len(bytes) THEN RanOut(i, i + 1)
             ELSE IF bytes[i + 1] > HIGHEST_PROTOCOL THEN Unpicklable
             ELSE unpickle(bytes, i + 2, stack)
        [] op = OP_FRAME ->
             IF i + 8 > Len(bytes) THEN RanOut(i, i + 8)
             ELSE IF i + 8 + frame_len(bytes, i) > Len(bytes)
             THEN RanOut(i + 8, i + 8 + frame_len(bytes, i))
             ELSE unpickle(bytes, i + 9, stack)
        [] op = OP_NONE -> unpickle(bytes, i + 1, Append(stack, NoneV))
        [] op = OP_BININT1 ->
             IF i + 1 > Len(bytes) THEN RanOut(i, i + 1)
             ELSE unpickle(bytes, i + 2, Append(stack, IntV(bytes[i + 1])))
        [] op = OP_BINFLOAT ->
             IF i + 8 > Len(bytes) THEN RanOut(i, i + 8)
             ELSE unpickle(bytes, i + 9,
                    Append(stack, FloatV(SubSeq(bytes, i + 1, i + 8))))
        [] op = OP_TUPLE2 ->
             IF Len(stack) < 2 THEN Unpicklable
             ELSE unpickle(bytes, i + 1,
                    Append(SubSeq(stack, 1, Len(stack) - 2),
                           make_tuple(stack[Len(stack) - 1], stack[Len(stack)])))
        [] op = OP_MEMOIZE ->
             IF Len(stack) = 0 THEN Unpicklable
             ELSE unpickle(bytes, i + 1, stack)
        [] op = OP_STOP ->
             IF Len(stack) = 0 THEN Unpicklable
             ELSE Loaded(stack[Len(stack)])
        [] OTHER -> Unpicklable

\* pickle.load(f) of a file that does not change: the value, or ok = FALSE
\* where pickle.load raises.
pickle_load(bytes) == unpickle(bytes, 1, <<>>)

----------------------------------------------------------------------------
(* CacheManager (cache.py).                                                *)

\* hashlib.md5(key.encode()).hexdigest(): a digest, taken as free of
\* collisions on the keys of the model.
md5(key) == <<"md5">> \o key

\* CacheManager._cache_key_to_filename
cache_key_to_filename(key) == [stem |-> md5(key), ext |-> "pkl"]

\* cache_path.exists()
path_exists(fs, name) == name \in DOMAIN fs

\* A get that reports an entry it cannot read as not found.
cache_get_forgiving(fs, key) ==
    LET name == cache_key_to_filename(key) IN
    IF ~path_exists(fs, name) THEN [status |-> "none", val |-> NoneV]
    ELSE LET r == pickle_load(fs[name]) IN
         IF r.ok THEN [status |-> "ok", val |-> r.val]
         ELSE [status |-> "none", val |-> NoneV]

\* CacheManager.get: status "none" (not found), "ok" (the unpickled value) or
\* "CacheError" (the file is there and pickle.load raised).
cache_get(fs, key) ==
    LET name == cache_key_to_filename(key) IN
    IF ~path_exists(fs, name) THEN [status |-> "none", val |-> NoneV]
    ELSE LET r == pickle_load(fs[name]) IN
         IF r.ok THEN [status |-> "ok", val |-> r.val]
         ELSE [status |-> "CacheError", val |-> NoneV]

\* What the file system does to one set: open() fails and the file is left as
\* it was ("open"); the write stops after n bytes of the pickle ("write"); or
\* everything is written ("ok").
IOOutcomes(bytes) ==
    {[kind |-> "ok", n |-> Len(bytes)], [kind |-> "open", n |-> 0]}
    \cup {[kind |-> "write", n |-> i] :
            i \in 0 .. (IF Len(bytes) - 1 < MaxCut THEN Len(bytes) - 1 ELSE MaxCut)}

\* Adding or replacing one file of the directory.
write_file(fs, name, bytes) ==
    [f \in DOMAIN fs \cup {name} |-> IF f = name THEN bytes ELSE fs[f]]

\* CacheManager.set: open(cache_path, "wb") truncates the file, pickle.dump
\* writes it, and any exception is raised as CacheError.
cache_set(fs, key, value, io) ==
    LET name == cache_key_to_filename(key)
        bytes == pickle_dump(value)
    IN CASE io.kind = "open" -> [files |-> fs, raised |-> TRUE]
         [] io.kind = "write" ->
              [files |-> write_file(fs, name, SubSeq(bytes, 1, io.n)),
               raised |-> TRUE]
         [] OTHER -> [files |-> write_file(fs, name, bytes), raised |-> FALSE]

\* CacheManager.exists
cache_exists(fs, key) == path_exists(fs, cache_key_to_filename(key))

\* A clear that removes nothing.
cache_clear_keeps(fs) == fs

\* CacheManager.clear: unlink every *.pkl file of the directory.
cache_clear(fs) ==
    LET keep == {f \in DOMAIN fs : f.ext # "pkl"} IN [f \in keep |-> fs[f]]

----------------------------------------------------------------------------
(* Strings: str.lower, str(int), "_".join, sorted.                         *)

UPPERCASE == <<"A", "B", "C", "D", "E", "F", "G", "H", "I", "J", "K", "L", "M",
               "N", "O", "P", "Q", "R", "S", "T", "U", "V", "W", "X", "Y", "Z">>
LOWERCASE == <<"a", "b", "c", "d", "e", "f", "g", "h", "i", "j", "k", "l", "m",
               "n", "o", "p", "q", "r", "s", "t", "u", "v", "w", "x", "y", "z">>
DIGITS == <<"0", "1", "2", "3", "4", "5", "6", "7", "8", "9">>
\* The characters of the model in code point order.
CHARSET == <<"\n", " ", "#", "'", ",", "-", ".">> \o DIGITS \o <<":">>
           \o UPPERCASE \o <<"_">> \o LOWERCASE

\* ord(c), as a position in CHARSET.
ord(c) == CHOOSE i \in 1 .. Len(CHARSET) : CHARSET[i] = c

lower_char(c) ==
    IF \E i \in 1 .. Len(UPPERCASE) : UPPERCASE[i] = c
    THEN LOWERCASE[CHOOSE i \in 1 .. Len(UPPERCASE) : UPPERCASE[i] = c]
    ELSE c

\* str.lower()
str_lower(s) == [i \in 1 .. Len(s) |-> lower_char(s[i])]

\* str(n) for an int
RECURSIVE nat_str(_)
nat_str(n) ==
    IF n < 10 THEN <<DIGITS[n + 1]>>
    ELSE nat_str(n \div 10) \o <<DIGITS[(n % 10) + 1]>>

int_str(n) == IF n < 0 THEN <<"-">> \o nat_str(0 - n) ELSE nat_str(n)

\* str(x) for a float holding a whole number, as geopy's latitude/longitude
\* of the model do: 48.0 prints as "48.0".
float_str(x) == int_str(x) \o <<".", "0">>

\* a < b for strings (code point order)
RECURSIVE str_less(_, _)
str_less(a, b) ==
    IF Len(b) = 0 THEN FALSE
    ELSE IF Len(a) = 0 THEN TRUE
    ELSE IF a[1] # b[1] THEN ord(a[1]) < ord(b[1])
    ELSE str_less(Tail(a), Tail(b))

\* sorted(S) for a set of strings
RECURSIVE sorted(_)
sorted(S) ==
    IF S = {} THEN <<>>
    ELSE LET m == CHOOSE x \in S : \A y \in S : x = y \/ str_less(x, y)
         IN <<m>> \o sorted(S \ {m})

\* sep.join(parts)
RECURSIVE join(_, _)
join(sep, parts) ==
    IF Len(parts) = 0 THEN <<>>
    ELSE IF Len(parts) = 1 THEN parts[1]
    ELSE parts[1] \o sep \o join(sep, Tail(parts))

\* whether sub occurs in s
contains(s, sub) ==
    \E i \in 0 .. (Len(s) - Len(sub)) : SubSeq(s, i + 1, i + Len(sub)) = sub

----------------------------------------------------------------------------
(* Cache keys (geocoding.py, data_fetching.py).                            *)

\* NominatimGeocoder._cache_key
geocode_cache_key(city, country) ==
    <<"c", "o", "o", "r", "d", "s", "_">> \o str_lower(city) \o <<"_">>
    \o str_lower(country)

\* OSMDataFetcher._graph_cache_key
graph_cache_key(point, dist) ==
    <<"g", "r", "a", "p", "h", "_">> \o float_str(point[1]) \o <<"_">>
    \o float_str(point[2]) \o <<"_">> \o int_str(dist)

\* OSMDataFetcher._features_cache_key; tags is a dict (a function from tag
\* names to tag values).
features_cache_key(point, dist, tags, name) ==
    name \o <<"_">> \o float_str(point[1]) \o <<"_">> \o float_str(point[2])
    \o <<"_">> \o int_str(dist) \o <<"_">> \o join(<<"_">>, sorted(DOMAIN tags))

\* The two feature layers and their tag filters (generate_poster, fetch_all_data).
WATER == <<"w", "a", "t", "e", "r">>
PARKS == <<"p", "a", "r", "k", "s">>
WATER_TAGS ==
    (<<"n", "a", "t", "u", "r", "a", "l">> :> WATER)
    @@ (<<"w", "a", "t", "e", "r", "w", "a", "y">>
          :> <<"r", "i", "v", "e", "r", "b", "a", "n", "k">>)
PARKS_TAGS ==
    (<<"l", "e", "i", "s", "u", "r", "e">> :> <<"p", "a", "r", "k">>)
    @@ (<<"l", "a", "n", "d", "u", "s", "e">> :> <<"g", "r", "a", "s", "s">>)
layer_tags(name) == IF name = WATER THEN WATER_TAGS ELSE PARKS_TAGS

----------------------------------------------------------------------------
(* Rate limiting (NominatimGeocoder._rate_limit_wait,                      *)
(* OSMDataFetcher._rate_limit_wait).                                       *)

\* Config: minimum time between requests, in ticks of 0.1 s.
geocoding_rate_limit == 10
graph_rate_limit == 5
features_rate_limit == 3

Classes == {"geocode", "graph", "features"}

\* The limit a request class waits for: the geocoder has its own; the fetcher
\* takes the graph limit for "graph" and the features limit otherwise.
limit_of(cls) ==
    CASE cls = "geocode" -> geocoding_rate_limit
      [] cls = "graph" -> graph_rate_limit
      [] OTHER -> features_rate_limit

\* The timestamp a request class reads: last_time.
last_of(cls) ==
    CASE cls = "geocode" -> last_request_time
      [] cls = "graph" -> last_graph_request
      [] OTHER -> last_features_request

\* A wait that sleeps for the time elapsed instead of the time remaining.
sleep_time_elapsed(last_time, t, limit) ==
    IF Len(last_time) = 0 THEN 0
    ELSE LET elapsed == t - last_time[1] IN
         IF elapsed < limit THEN elapsed ELSE 0

\* if last_time is not None: elapsed = time.time() - last_time;
\* if elapsed < limit: time.sleep(limit - elapsed).  The ticks to sleep (0: no sleep).
sleep_time(last_time, t, limit) ==
    IF Len(last_time) = 0 THEN 0
    ELSE LET elapsed == t - last_time[1] IN
         IF elapsed < limit THEN limit - elapsed ELSE 0

\* A limiter that records the time its call began, not the time after the wait.
stamp_at_call(cls, t) ==
    CASE cls = "geocode" -> <<<<thr["main"].t0>>, last_graph_request, last_features_request>>
      [] cls = "graph" -> <<last_request_time, <<thr["main"].t0>>, last_features_request>>
      [] OTHER -> <<last_request_time, last_graph_request, <<thr["main"].t0>>>>

\* self.last_..._request = time.time(): the timestamps after class cls stamps t.
stamp(cls, t) ==
    CASE cls = "geocode" -> <<<<t>>, last_graph_request, last_features_request>>
      [] cls = "graph" -> <<last_request_time, <<t>>, last_features_request>>
      [] OTHER -> <<last_request_time, last_graph_request, <<t>>>>

----------------------------------------------------------------------------
(* The calls geocode, fetch_graph and fetch_features, one frame per thread. *)

Threads == {"main", "w1", "w2", "w3"}

\* Inputs of the model.
Cities == {<<"P", "a">>, <<"R">>}
Countries == {<<"F", "r">>}
Points == {<<0, n>> : n \in 0 .. MaxPayload}
\* The point and the radius the fetcher is asked for.
FetchPoints == {<<0, 0>>}
Dists == {1}
Layers == {WATER, PARKS}
\* Pauses between calls and provider latencies, in ticks.
Pauses == {4, MaxGap}
Latencies == {0, 1}

\* What the provider may answer: a location for the geocoder, a graph or a
\* feature collection (an opaque payload) for the fetcher.
provider_values(cls) ==
    IF cls = "geocode" THEN {TupleV(p[1], p[2]) : p \in Points}
    ELSE {IntV(n) : n \in 0 .. MaxPayload}

IdleFrame ==
    [pc |-> "idle", cls |-> "geocode", key |-> <<>>, args |-> <<>>, wake |-> 0,
     t0 |-> 0, last0 |-> <<>>, n0 |-> 0, files0 |-> <<>>, slept |-> FALSE,
     treq |-> 0, tend |-> 0, provider |-> "", fetched |-> NoneV,
     set_raised |-> FALSE,
     status |-> "", val |-> NoneV, msg |-> <<>>]

\* A lookup that never reports a hit.
is_hit_never(r) == FALSE

\* "if cached is not None"
is_hit(r) == r.status = "ok" /\ r.val # NoneV

\* ValueError(f"Geocoding failed for {city}, {country}: {e}")
geocoding_failed(city, country, e) ==
    <<"Geocoding failed for ">> \o city \o <<",", " ">> \o country \o <<":", " ">> \o e

\* ValueError(f"Could not find coordinates for {city}, {country}")
could_not_find(city, country) ==
    <<"Could not find coordinates for ">> \o city \o <<",", " ">> \o country

\* CacheError(f"Failed to load cached data for key '{key}': {e}")
failed_to_load(key) ==
    <<"Failed to load cached data for key '">> \o key \o <<"': ">> \o <<"pickle">>

\* The head of geocode, fetch_graph and fetch_features: compute the key, look
\* it up; a hit returns the cached value, a miss goes on to the rate limiter,
\* and an exception of cache.get leaves the call.
begin_frame(cls, key, args) ==
    LET r == cache_get(files, key)
        f == [IdleFrame EXCEPT !.cls = cls, !.key = key, !.args = args,
                               !.t0 = now, !.last0 = last_of(cls),
                               !.n0 = Len(issued[cls]), !.files0 = files]
    IN IF r.status = "CacheError"
       THEN [f EXCEPT !.pc = "done", !.tend = now, !.status = "CacheError",
                      !.msg = failed_to_load(key)]
       ELSE IF is_hit(r)
       THEN [f EXCEPT !.pc = "done", !.tend = now, !.status = "value", !.val = r.val]
       ELSE [f EXCEPT !.pc = "wait"]

\* History: the start times of the latest calls of a class in a row that were
\* not answered from the cache (the last two).
note_start(cls, f) ==
    [starts EXCEPT ![cls] =
        IF f.pc # "wait" THEN <<>>
        ELSE IF Len(@) = 0 THEN <<now>> ELSE <<@[Len(@)], now>>]

call_begin(t, cls, key, args) ==
    /\ thr[t].pc \in {"idle", "done"}
    /\ thr' = [thr EXCEPT ![t] = begin_frame(cls, key, args)]
    /\ starts' = note_start(cls, begin_frame(cls, key, args))
    /\ UNCHANGED <<cacheVars, now, limiterVars, issued, request_failed>>

\* NominatimGeocoder.geocode, up to the rate limiter
geocode(t, city, country) ==
    call_begin(t, "geocode", geocode_cache_key(city, country), <<city, country>>)

\* OSMDataFetcher.fetch_graph, up to the rate limiter
fetch_graph(t, point, dist) ==
    call_begin(t, "graph", graph_cache_key(point, dist), <<>>)

\* OSMDataFetcher.fetch_features, up to the rate limiter
fetch_features(t, point, dist, tags, name) ==
    call_begin(t, "features", features_cache_key(point, dist, tags, name), <<name>>)

\* _rate_limit_wait, first half: read last_time and the clock, decide to sleep.
rate_limit_read(t) ==
    /\ thr[t].pc = "wait"
    /\ LET d == sleep_time(last_of(thr[t].cls), now, limit_of(thr[t].cls)) IN
       thr' = [thr EXCEPT ![t] =
                 IF d > 0 THEN [@ EXCEPT !.pc = "sleep", !.wake = now + d]
                 ELSE [@ EXCEPT !.pc = "stamp"]]
    /\ UNCHANGED <<cacheVars, now, limiterVars, issued, starts, request_failed>>

\* time.sleep(limit - elapsed) returns: no earlier than asked.
rate_limit_sleep(t, over) ==
    /\ thr[t].pc = "sleep"
    /\ now' = IF now > thr[t].wake + over THEN now ELSE thr[t].wake + over
    /\ thr' = [thr EXCEPT ![t] = [@ EXCEPT !.pc = "stamp", !.slept = TRUE]]
    /\ UNCHANGED <<cacheVars, limiterVars, issued, starts, request_failed>>

\* _rate_limit_wait, last line: record time.time(); the call then issues its
\* request to the provider (in the same tick).
rate_limit_stamp(t) ==
    /\ thr[t].pc = "stamp"
    /\ last_request_time' = stamp(thr[t].cls, now)[1]
    /\ last_graph_request' = stamp(thr[t].cls, now)[2]
    /\ last_features_request' = stamp(thr[t].cls, now)[3]
    /\ issued' = [issued EXCEPT ![thr[t].cls] = Append(@, now)]
    /\ thr' = [thr EXCEPT ![t] = [@ EXCEPT !.pc = "reply", !.treq = now]]
    /\ UNCHANGED <<cacheVars, now, starts, request_failed>>

\* A call that lets the CacheError of cache.set escape.
after_cache_set_raising(value, raised) ==
    IF raised THEN [status |-> "CacheError", val |-> NoneV]
    ELSE [status |-> "value", val |-> value]

\* "try: self.cache.set(cache_key, value) / except CacheError as e: print(...)"
\* and then "return value": what the call returns after the attempt to store.
after_cache_set(value, raised) == [status |-> "value", val |-> value]

\* A call that goes back to its rate limiter and asks again when the
\* request has failed.
reply_frame_retry(f, tend, outcome, value, set_raised) ==
    IF outcome = "ok"
    THEN [f EXCEPT !.pc = "done", !.tend = tend, !.provider = outcome,
                   !.status = "value", !.val = value,
                   !.fetched = value, !.set_raised = set_raised]
    ELSE [f EXCEPT !.pc = "wait", !.provider = outcome]

\* What a call returns once the provider has answered: a failure of the
\* geocoder is raised as ValueError, a failure of the fetcher returns None, a
\* fetched value is returned whether or not cache.set raised CacheError.
reply_frame(f, tend, outcome, value, set_raised) ==
    LET g == [f EXCEPT !.pc = "done", !.tend = tend, !.provider = outcome] IN
    CASE outcome = "ok" ->
           [g EXCEPT !.status = after_cache_set(value, set_raised).status,
                     !.val = after_cache_set(value, set_raised).val,
                     !.fetched = value, !.set_raised = set_raised]
      [] f.cls = "geocode" ->
           [g EXCEPT !.status = "ValueError",
                     !.msg = geocoding_failed(f.args[1], f.args[2],
                               IF outcome = "notfound"
                               THEN could_not_find(f.args[1], f.args[2])
                               ELSE <<"provider error">>)]
      [] OTHER -> [g EXCEPT !.status = "None"]

\* A call that stores nothing.
reply_store_never(fs, key, outcome, value, io) == [files |-> fs, raised |-> FALSE]

\* A call that stores whatever the request produced, a failure included.
reply_store_always(fs, key, outcome, value, io) == cache_set(fs, key, value, io)

\* The cache directory after the provider's answer: only a fetched value is stored.
reply_store(fs, key, outcome, value, io) ==
    IF outcome = "ok" THEN cache_set(fs, key, value, io)
    ELSE [files |-> fs, raised |-> FALSE]

\* The tail of geocode, fetch_graph and fetch_features: the provider answers
\* after `latency` ticks (a value, no location, or an exception); a value is
\* stored with cache.set and returned.
provider_reply(t, outcome, value, latency, io) ==
    /\ thr[t].pc = "reply"
    /\ outcome = "notfound" => thr[t].cls = "geocode"
    /\ outcome # "ok" => (io.kind = "ok" /\ value = NoneV)
    /\ now' = IF now > thr[t].treq + latency THEN now ELSE thr[t].treq + latency
    /\ LET w == reply_store(files, thr[t].key, outcome, value, io) IN
       /\ files' = w.files
       /\ thr' = [thr EXCEPT ![t] = reply_frame(@, now', outcome, value, w.raised)]
       /\ set_failed' = (set_failed \/ w.raised)
    /\ request_failed' = (request_failed \/ outcome # "ok")
    /\ UNCHANGED <<cret, stored, written, limiterVars, issued, starts>>

\* Time passes between the end of a call and the next call.
Pause(d) ==
    /\ \A t \in Threads : thr[t].pc \in {"idle", "done"}
    /\ thr["main"].pc = "done" /\ now = thr["main"].tend
    /\ ncalls < MaxCalls
    /\ d > 0
    /\ now' = now + d
    /\ UNCHANGED <<cacheVars, limiterVars, thr, issued, starts, request_failed, ncalls, appVars>>

\* main() has not been run.
NoRun == [pc |-> "idle", argv |-> <<>>, exit |-> 0 - 1]

\* A thread that runs no CacheManager operation.
IdleOp ==
    [pc |-> "idle", op |-> "", key |-> <<>>, value |-> NoneV, pos |-> 0,
     writes |-> 0, buf |-> <<>>, want |-> 0, status |-> "", val |-> NoneV]

\* No function has been applied.
NoCall == [op |-> "", args |-> <<>>, ret |-> <<>>]

\* No generate_poster has been called.
NoPoster ==
    [pc |-> "idle", city |-> <<>>, country |-> <<>>, theme_name |-> <<>>,
     distance |-> 0, output_format |-> <<>>, coords |-> <<>>, graph |-> NoneV,
     water |-> NoneV, parks |-> NoneV, theme |-> <<>>, output_path |-> <<>>,
     trace |-> <<>>, results |-> <<>>, rendered |-> <<>>, render_failed |-> 0,
     posters0 |-> {}, status |-> "", msg |-> <<>>]

\* No generate_all_themes has been called.
\* attempted and outcomes are history: the themes generate_poster was called
\* for, and how each of these calls ended.
NoBatch ==
    [pc |-> "idle", themes |-> <<>>, i |-> 0, output_paths |-> <<>>,
     attempted |-> <<>>, outcomes |-> <<>>]

----------------------------------------------------------------------------
(* Sequential use of one geocoder and one fetcher over one cache directory. *)

InitRest ==
    /\ cret = [op |-> "", key |-> <<>>, status |-> "", val |-> NoneV]
    /\ stored = <<>>
    /\ written = <<>>
    /\ set_failed = FALSE
    /\ now = 0
    /\ last_request_time = <<>>
    /\ last_graph_request = <<>>
    /\ last_features_request = <<>>
    /\ thr = [t \in Threads |-> IdleFrame]
    /\ issued = [c \in Classes |-> <<>>]
    /\ starts = [c \in Classes |-> <<>>]
    /\ request_failed = FALSE
    /\ ncalls = 0
    /\ fad = [pc |-> "idle", point |-> <<0, 0>>, dist |-> 0, result |-> <<>>]
    /\ tret = [op |-> "", name |-> <<>>, raised |-> FALSE, theme |-> <<>>]
    /\ cop = [t \in Threads |-> IdleOp]
    /\ cli = NoRun
    /\ gen = NoPoster
    /\ batch = NoBatch
    /\ posters = {}

\* A new cache directory, a new geocoder and a new fetcher.
Init == files = <<>> /\ InitRest /\ themes_dir = <<>> /\ fn = NoCall

\* A step of the caller that starts one more call.
one_more_call ==
    /\ ncalls < MaxCalls
    /\ ncalls' = ncalls + 1
    /\ UNCHANGED appVars

\* A step inside the running call.
call_goes_on == UNCHANGED <<ncalls, appVars>>

CallGeocode ==
    /\ one_more_call
    /\ \E city \in Cities, country \in Countries : geocode("main", city, country)

CallFetchGraph ==
    /\ one_more_call
    /\ \E point \in FetchPoints, dist \in Dists : fetch_graph("main", point, dist)

CallFetchFeatures ==
    /\ one_more_call
    /\ \E point \in FetchPoints, dist \in Dists, name \in Layers :
          fetch_features("main", point, dist, layer_tags(name), name)

RateLimitRead == call_goes_on /\ rate_limit_read("main")

RateLimitSleep ==
    call_goes_on /\ \E over \in 0 .. MaxOversleep : rate_limit_sleep("main", over)

RateLimitStamp == call_goes_on /\ rate_limit_stamp("main")

\* What may come back for the request of thread t: a value (and then what the
\* file system does to cache.set), no location, or an exception.
Replies(t) ==
    UNION {{[outcome |-> "ok", value |-> v, io |-> io] :
              io \in IOOutcomes(pickle_dump(v))} : v \in provider_values(thr[t].cls)}
    \cup {[outcome |-> o, value |-> NoneV, io |-> [kind |-> "ok", n |-> 0]] :
        o \in {"notfound", "error"}}

ProviderReply ==
    /\ call_goes_on
    /\ \E r \in Replies("main"), latency \in Latencies :
          provider_reply("main", r.outcome, r.value, latency, r.io)

TimePasses == \E d \in Pauses : Pause(d)

Next ==
    \/ CallGeocode
    \/ CallFetchGraph
    \/ CallFetchFeatures
    \/ RateLimitRead
    \/ RateLimitSleep
    \/ RateLimitStamp
    \/ ProviderReply
    \/ TimePasses

Spec == Init /\ [][Next]_vars

----------------------------------------------------------------------------
(* Properties of the sequential calls (Spec).                              *)

Frames == {thr[t] : t \in Threads}
Done == {f \in Frames : f.pc = "done"}
\* The calls that found a cached value under their key when they began.
DoneHits ==
    {f \in Done : /\ cache_get(f.files0, f.key).status = "ok"
                  /\ cache_get(f.files0, f.key).val # NoneV}

\* C1: a call of geocode, fetch_graph or fetch_features that finds a cached
\* value under its key returns that value, issues no provider request, does
\* not wait (it ends in the tick it began, without sleeping) and leaves the
\* last-request timestamp of its class as it was.
CacheBypassOnHit ==
    \A f \in DoneHits :
        /\ f.status = "value"
        /\ f.val = cache_get(f.files0, f.key).val
        /\ f.provider = ""
        /\ Len(issued[f.cls]) = f.n0
        /\ ~f.slept /\ f.tend = f.t0
        /\ last_of(f.cls) = f.last0

\* C1 witness: a hit at a moment when a request of the class would have had
\* to wait.
CacheHitWouldWait ==
    \E f \in DoneHits :
        /\ Len(f.last0) = 1
        /\ f.t0 - f.last0[1] < limit_of(f.cls)
        /\ f.status = "value"

\* C2 as stated: the calls of a class that miss the cache begin at least the
\* configured interval apart.
CallStartsSpaced ==
    \A c \in Classes :
        Len(starts[c]) = 2 => starts[c][2] - starts[c][1] >= limit_of(c)

\* C2 as amended: the provider requests of a class (issued when the call
\* leaves the rate limiter and records its timestamp) are at least the
\* configured interval apart, and a call that finds no earlier request of its
\* class never sleeps.
RequestsSpaced ==
    /\ \A c \in Classes : \A i \in 1 .. (Len(issued[c]) - 1) :
          issued[c][i + 1] - issued[c][i] >= limit_of(c)
    /\ \A f \in Frames :
          (f.pc # "idle" /\ Len(f.last0) = 0) => (f.pc # "sleep" /\ ~f.slept)

\* C2 witness: a second request of a class was issued after a sleep, and a
\* first one without.
SecondRequestWaited ==
    \E f \in Done :
        /\ f.slept /\ f.provider # ""
        /\ Len(issued[f.cls]) >= 2
        /\ f.t0 - f.last0[1] < limit_of(f.cls)

\* C24: the timestamp of a class is the time at which the latest request of
\* the class was issued: it is recorded when the wait is over (not before)
\* and stays as recorded while the request runs and after it has ended,
\* however long it took and whether it succeeded or failed; consecutive
\* requests of a class are issued at least the interval of the class apart.
StampBeforeRequest ==
    LET f == thr["main"] IN
    /\ f.pc \in {"wait", "sleep", "stamp"} => last_of(f.cls) = f.last0
    /\ (f.pc = "reply" \/ (f.pc = "done" /\ f.provider # "")) =>
          /\ last_of(f.cls) = <<f.treq>>
          /\ issued[f.cls][Len(issued[f.cls])] = f.treq
          /\ Len(f.last0) = 1 => f.treq - f.last0[1] >= limit_of(f.cls)
          /\ f.pc = "done" => f.tend >= f.treq
    /\ \A c \in Classes : \A i \in 1 .. (Len(issued[c]) - 1) :
          issued[c][i + 1] >= issued[c][i] + limit_of(c)

\* C24 witness: the first request of a class failed after a latency, the
\* next call of the class began at once, slept, and issued its request one
\* interval after the first request was issued.
RequestAfterSlowFailure ==
    LET f == thr["main"] IN
    /\ f.pc = "reply" /\ f.slept /\ request_failed
    /\ ncalls = 2 /\ Len(issued[f.cls]) = 2
    /\ f.t0 > f.last0[1]
    /\ f.treq = f.last0[1] + limit_of(f.cls)

\* C23: a call of geocode, fetch_graph or fetch_features issues at most one
\* provider request, none before its wait is over, and a request that
\* failed ends the call: geocode raises ValueError, the fetches return None.
NoInternalRetries ==
    \A f \in Frames :
        f.pc # "idle" =>
            /\ Len(issued[f.cls]) - f.n0 \in {0, 1}
            /\ f.pc \in {"wait", "sleep", "stamp"} =>
                  (Len(issued[f.cls]) = f.n0 /\ f.provider = "")
            /\ f.provider \in {"error", "notfound"} =>
                  /\ f.pc = "done"
                  /\ Len(issued[f.cls]) = f.n0 + 1
                  /\ f.status = IF f.cls = "geocode" THEN "ValueError" ELSE "None"

\* C23 witness: a fetch_graph whose request failed returned None, after an
\* earlier request of the class, with one request issued by the call.
FailedRequestSurfaced ==
    \E f \in Done :
        /\ f.cls = "graph" /\ f.provider = "error" /\ f.status = "None"
        /\ f.n0 = 1 /\ Len(issued["graph"]) = 2

\* C4: when the provider request succeeded and cache.set raised, the call
\* returns the value just fetched.
CacheWriteFailureNotPropagated ==
    \A f \in Done :
        (f.provider = "ok" /\ f.set_raised) =>
            (f.status = "value" /\ f.val = f.fetched)

\* C4 witness: a fetch whose cache.set failed midway, leaving a cut file.
CacheWriteFailed ==
    \E f \in Done :
        /\ f.provider = "ok" /\ f.set_raised
        /\ cache_get(files, f.key).status = "CacheError"

\* C5: a call whose provider request failed leaves the cache directory as it
\* was; geocode raises ValueError with the city and the country in its
\* message, fetch_graph and fetch_features return None.
FailureStoresNothing ==
    \A f \in Done :
        f.provider \in {"notfound", "error"} =>
            /\ files = f.files0
            /\ f.cls = "geocode" =>
                  /\ f.status = "ValueError"
                  /\ contains(f.msg, f.args[1])
                  /\ contains(f.msg, f.args[2])
            /\ f.cls # "geocode" => f.status = "None"

\* C5 witness: both a geocode that found no location and a failed fetch have
\* been seen with a non-empty cache.
FailureSeen ==
    \E f \in Done :
        /\ f.provider \in {"notfound", "error"}
        /\ DOMAIN files # {}

\* C9 as stated: fetch_graph and fetch_features end by returning a value or None.
FetchNeverRaises ==
    \A f \in Done :
        f.cls \in {"graph", "features"} => f.status \in {"value", "None"}

----------------------------------------------------------------------------
(* Direct use of one CacheManager (SpecCache).                             *)

CacheKeys ==
    {geocode_cache_key(city, country) : city \in Cities, country \in Countries}
    \cup {graph_cache_key(point, dist) : point \in FetchPoints, dist \in Dists}

CacheValues == {NoneV} \cup provider_values("geocode") \cup provider_values("graph")

\* History of set: the value a later get is to return.
remember(st, key, value, raised) ==
    IF raised THEN [k \in DOMAIN st \ {key} |-> st[k]]
    ELSE [k \in DOMAIN st \cup {key} |-> IF k = key THEN value ELSE st[k]]

\* History of set: the values written completely under a key.
note_written(wr, key, value, raised) ==
    IF raised THEN wr
    ELSE [k \in DOMAIN wr \cup {key} |->
            IF k = key THEN (IF k \in DOMAIN wr THEN wr[k] ELSE {}) \cup {value}
            ELSE wr[k]]

\* What the file system may do to a set of the cache used on its own: the
\* write may stop after MaxPiece bytes of the pickle at most, or before its
\* last byte.
SetOutcomes(bytes) ==
    IOOutcomes(bytes)
    \cup {[kind |-> "write", n |-> i] :
            i \in {j \in 0 .. (Len(bytes) - 1) : j <= MaxPiece \/ j = Len(bytes) - 1}}

CacheSet(key, value, io) ==
    /\ ncalls < MaxCalls
    /\ ncalls' = ncalls + 1
    /\ LET w == cache_set(files, key, value, io) IN
       /\ files' = w.files
       /\ cret' = [op |-> "set", key |-> key,
                   status |-> IF w.raised THEN "CacheError" ELSE "ok", val |-> value]
       /\ stored' = remember(stored, key, value, w.raised)
       /\ written' = note_written(written, key, value, w.raised)
       /\ set_failed' = (set_failed \/ w.raised)
    /\ UNCHANGED <<fetchVars, appVars>>

CacheGet(key) ==
    /\ ncalls < MaxCalls
    /\ ncalls' = ncalls + 1
    /\ cret' = [op |-> "get", key |-> key,
                status |-> cache_get(files, key).status,
                val |-> cache_get(files, key).val]
    /\ UNCHANGED <<files, stored, written, set_failed, fetchVars, appVars>>

CacheExists(key) ==
    /\ ncalls < MaxCalls
    /\ ncalls' = ncalls + 1
    /\ cret' = [op |-> "exists", key |-> key,
                status |-> IF cache_exists(files, key) THEN "True" ELSE "False",
                val |-> NoneV]
    /\ UNCHANGED <<files, stored, written, set_failed, fetchVars, appVars>>

CacheClear ==
    /\ ncalls < MaxCalls
    /\ ncalls' = ncalls + 1
    /\ files' = cache_clear(files)
    /\ cret' = [op |-> "clear", key |-> <<>>, status |-> "ok", val |-> NoneV]
    /\ stored' = <<>>
    /\ written' = <<>>
    /\ UNCHANGED <<set_failed, fetchVars, appVars>>

DoSet ==
    \E key \in CacheKeys, value \in CacheValues :
      \E io \in SetOutcomes(pickle_dump(value)) : CacheSet(key, value, io)

DoGet == \E key \in CacheKeys : CacheGet(key)

DoExists == \E key \in CacheKeys : CacheExists(key)

NextCache ==
    \/ DoSet
    \/ DoGet
    \/ DoExists
    \/ CacheClear

SpecCache == Init /\ [][NextCache]_vars

\* C3: a get(k) that follows a set(k, v) which returned normally, with no set
\* of k and no clear in between, returns v.
CacheRoundTrip ==
    (cret.op = "get" /\ cret.key \in DOMAIN stored) =>
        (cret.status = "ok" /\ cret.val = stored[cret.key])

\* C3 witness: a pair of coordinates with two different items was stored under
\* one key, another value under another key, and the pair was read back.
RoundTripDone ==
    /\ cret.op = "get" /\ cret.key \in DOMAIN stored
    /\ stored[cret.key].t = "tuple"
    /\ stored[cret.key].v[1] # stored[cret.key].v[2]
    /\ \E k \in DOMAIN stored : stored[k] # stored[cret.key]

\* C15: as long as no set has failed, exists(k) is true exactly when a set
\* of k happened since the last clear, get(k) returns the value of the last
\* such set and not found otherwise, and right after clear no key exists.
NeverExpires ==
    ~set_failed =>
        /\ cret.op = "exists" =>
              (cret.status = "True" <=> cret.key \in DOMAIN stored)
        /\ cret.op = "get" =>
              IF cret.key \in DOMAIN stored
              THEN cret.status = "ok" /\ cret.val = stored[cret.key]
              ELSE cret.status = "none"
        /\ cret.op = "clear" =>
              \A k \in CacheKeys :
                 ~cache_exists(files, k) /\ cache_get(files, k).status = "none"

\* C15 witness: two sets of different values under one key, none failed,
\* and the get that followed returned the later value.
LastSetRead ==
    /\ ~set_failed
    /\ cret.op = "get" /\ cret.status = "ok"
    /\ cret.key \in DOMAIN written /\ Cardinality(written[cret.key]) = 2

\* C12: whatever sets failed or were cut off before it, a get(k) returns not
\* found only when there is no file for k, returns only a value that a set
\* of k has written completely, and otherwise raises CacheError.
InterruptedSetSafe ==
    cret.op = "get" =>
        /\ cret.status \in {"none", "ok", "CacheError"}
        /\ cret.status = "none" => ~cache_exists(files, cret.key)
        /\ cret.status = "ok" =>
              /\ cret.key \in DOMAIN written
              /\ cret.val \in written[cret.key]

\* C12 witness: a value was stored under a key, a later set of another
\* value under that key was cut off after some bytes, and the get that
\* followed raised CacheError.
GetAfterCutSet ==
    /\ cret.op = "get" /\ cret.status = "CacheError"
    /\ cret.key \in DOMAIN written /\ cret.key \notin DOMAIN stored
    /\ Len(files[cache_key_to_filename(cret.key)]) > MaxCut

\* C28 as stated: a set(k, v) that raises CacheError leaves the cache as it
\* was: for every key, get and exists give after the failed call what they
\* gave before it.
FailedSetLeavesCache ==
    [][(ncalls' # ncalls /\ cret'.op = "set" /\ cret'.status = "CacheError")
        => \A k \in CacheKeys :
             /\ cache_get(files', k) = cache_get(files, k)
             /\ cache_exists(files', k) = cache_exists(files, k)]_vars

----------------------------------------------------------------------------
(* AsyncOSMDataFetcher.fetch_all_data (SpecAsync): three calls dispatched   *)
(* to threads with asyncio.to_thread and awaited with asyncio.gather.       *)

Workers == {"w1", "w2", "w3"}

\* What an earlier run may have left in the cache directory under a key: no
\* file, or what one cache.set of a fetched value wrote (all of it or a cut).
PriorSets ==
    {[set |-> FALSE, io |-> [kind |-> "open", n |-> 0]]}
    \cup {[set |-> TRUE, io |-> io] : io \in IOOutcomes(pickle_dump(IntV(0)))}

prior_set(fs, key, c) == IF c.set THEN cache_set(fs, key, IntV(0), c.io).files ELSE fs

PriorDirs ==
    {prior_set(prior_set(prior_set(<<>>,
         graph_cache_key(point, dist), c[1]),
         features_cache_key(point, dist, WATER_TAGS, WATER), c[2]),
         features_cache_key(point, dist, PARKS_TAGS, PARKS), c[3]) :
       point \in FetchPoints, dist \in Dists,
       c \in PriorSets \X PriorSets \X PriorSets}

InitAsync == files \in PriorDirs /\ InitRest /\ themes_dir = <<>> /\ fn = NoCall

\* fetch_all_data: the three tasks are created and handed to gather.
fetch_all_data(point, dist) ==
    /\ fad.pc = "idle"
    /\ fad' = [pc |-> "running", point |-> point, dist |-> dist, result |-> <<>>]
    /\ UNCHANGED <<cacheVars, fetchVars, ncalls, themeVars, posterVars, unitVars>>

\* A task raised: its call ended with an exception instead of a return value.
raised(f) == f.pc = "done" /\ f.status \notin {"value", "None"}

\* What a task returned.
returned(f) == [status |-> f.status, val |-> f.val]

\* await asyncio.gather(*tasks), all three tasks having returned: the list
\* of their results, in the order of the tasks.
gather_returns ==
    /\ fad.pc = "running"
    /\ \A w \in Workers : thr[w].pc = "done" /\ ~raised(thr[w])
    /\ fad' = [fad EXCEPT !.pc = "returned",
                          !.result = <<returned(thr["w1"]), returned(thr["w2"]),
                                       returned(thr["w3"])>>]
    /\ UNCHANGED <<cacheVars, fetchVars, ncalls, themeVars, posterVars, unitVars>>

\* await asyncio.gather(*tasks) without return_exceptions: the first exception
\* of a task is raised to the awaiting fetch_all_data at once; the other
\* tasks run on, and what they return is dropped.
gather_raises ==
    /\ fad.pc = "running"
    /\ \E w \in Workers : raised(thr[w])
    /\ fad' = [fad EXCEPT !.pc = "raised"]
    /\ UNCHANGED <<cacheVars, fetchVars, ncalls, themeVars, posterVars, unitVars>>

\* The provider latency taken for the requests of the tasks, in ticks.
TaskLatencies == {1}

Dispatched == fad.pc \in {"running", "raised"}

FetchAllData == \E point \in FetchPoints, dist \in Dists : fetch_all_data(point, dist)

TaskGraph ==
    /\ Dispatched /\ thr["w1"].pc = "idle" /\ call_goes_on
    /\ fetch_graph("w1", fad.point, fad.dist)

TaskWater ==
    /\ Dispatched /\ thr["w2"].pc = "idle" /\ call_goes_on
    /\ fetch_features("w2", fad.point, fad.dist, WATER_TAGS, WATER)

TaskParks ==
    /\ Dispatched /\ thr["w3"].pc = "idle" /\ call_goes_on
    /\ fetch_features("w3", fad.point, fad.dist, PARKS_TAGS, PARKS)

TaskRead == call_goes_on /\ \E w \in Workers : rate_limit_read(w)

TaskSleep ==
    call_goes_on /\ \E w \in Workers, over \in 0 .. MaxOversleep : rate_limit_sleep(w, over)

TaskStamp == call_goes_on /\ \E w \in Workers : rate_limit_stamp(w)

TaskReply ==
    /\ call_goes_on
    /\ \E w \in Workers : \E r \in Replies(w), latency \in TaskLatencies :
          provider_reply(w, r.outcome, r.value, latency, r.io)

NextAsync ==
    \/ FetchAllData
    \/ TaskGraph
    \/ TaskWater
    \/ TaskParks
    \/ TaskRead
    \/ TaskSleep
    \/ TaskStamp
    \/ TaskReply
    \/ gather_returns
    \/ gather_raises

SpecAsync == InitAsync /\ [][NextAsync]_vars

\* C6 as stated: whatever the three dispatched calls do, the await of
\* fetch_all_data ends with the triple of their own results, each a value or
\* None.
FanOutKeepsEachSlot ==
    (fad.pc # "idle" /\ \A w \in Workers : thr[w].pc = "done") =>
        /\ fad.pc \in {"running", "returned"}
        /\ fad.pc = "returned" =>
              \A i \in 1 .. 3 :
                  fad.result[i] = returned(thr[<<"w1", "w2", "w3">>[i]])

\* Nothing was cached for the three calls of fetch_all_data when they began.
NoneCached ==
    \A w \in Workers :
        thr[w].pc # "idle" /\ cache_get(thr[w].files0, thr[w].key).status = "none"

\* C14 as stated: when fetch_all_data runs with none of the three entries
\* cached, the provider requests for water and for parks are issued at least
\* features_rate_limit apart.
AsyncFeaturesSpaced ==
    NoneCached =>
        \A i \in 1 .. (Len(issued["features"]) - 1) :
            issued["features"][i + 1] - issued["features"][i] >= features_rate_limit

----------------------------------------------------------------------------
(* Themes (theme.py).  A JSON value is a string (t = "str", s its          *)
(* characters) or a number (t = "int"); a theme file holds text that is    *)
(* not JSON ("garbage"), a JSON array, or a JSON object.                   *)

Str(chars) == [t |-> "str", s |-> chars]
Num == [t |-> "int", s |-> <<>>]

\* Theme.validate: color_fields, in the order of the loop.
color_fields ==
    <<"bg", "text", "gradient_color", "water", "parks", "road_motorway",
      "road_primary", "road_secondary", "road_tertiary", "road_residential",
      "road_default">>
ColorFields == {color_fields[i] : i \in 1 .. Len(color_fields)}
\* The fields of the dataclass Theme.
ThemeFields == {"name", "description"} \cup ColorFields

\* The defaults of the dataclass fields (name has none).
field_default(f) ==
    CASE f = "description" -> Str(<<>>)
      [] f = "bg" -> Str(<<"#", "F", "F", "F", "F", "F", "F">>)
      [] f = "text" -> Str(<<"#", "0", "0", "0", "0", "0", "0">>)
      [] f = "gradient_color" -> Str(<<"#", "F", "F", "F", "F", "F", "F">>)
      [] f = "water" -> Str(<<"#", "C", "0", "C", "0", "C", "0">>)
      [] f = "parks" -> Str(<<"#", "F", "0", "F", "0", "F", "0">>)
      [] f = "road_motorway" -> Str(<<"#", "0", "A", "0", "A", "0", "A">>)
      [] f = "road_primary" -> Str(<<"#", "1", "A", "1", "A", "1", "A">>)
      [] f = "road_secondary" -> Str(<<"#", "2", "A", "2", "A", "2", "A">>)
      [] f = "road_tertiary" -> Str(<<"#", "3", "A", "3", "A", "3", "A">>)
      [] f = "road_residential" -> Str(<<"#", "4", "A", "4", "A", "4", "A">>)
      [] f = "road_default" -> Str(<<"#", "3", "A", "3", "A", "3", "A">>)
      [] OTHER -> Str(<<>>)

HexDigits ==
    {DIGITS[i] : i \in 1 .. 10} \cup {"A", "B", "C", "D", "E", "F"}
    \cup {"a", "b", "c", "d", "e", "f"}

\* A pattern that must reach the very end of the string (\Z).
hex_color_match_strict(s) ==
    /\ Len(s) = 7
    /\ s[1] = "#"
    /\ \A i \in 2 .. 7 : s[i] \in HexDigits

\* re.match(r"^#[0-9A-Fa-f]{6}$", color): "$" matches at the end of the
\* string and also just before a newline that ends the string.
hex_color_match(s) ==
    /\ Len(s) \in {7, 8}
    /\ s[1] = "#"
    /\ \A i \in 2 .. 7 : s[i] \in HexDigits
    /\ Len(s) = 8 => s[8] = "\n"

\* Theme.from_json: json.load(f), then cls(**data).  JSONDecodeError for text
\* that is not JSON, TypeError for data that is no mapping, for a missing
\* name and for a key that is no field.
from_json(content) ==
    IF content.kind = "garbage" THEN [ok |-> FALSE, exc |-> "JSONDecodeError", theme |-> <<>>]
    ELSE IF content.kind # "object" THEN [ok |-> FALSE, exc |-> "TypeError", theme |-> <<>>]
    ELSE IF "name" \notin DOMAIN content.obj \/ ~(DOMAIN content.obj \subseteq ThemeFields)
    THEN [ok |-> FALSE, exc |-> "TypeError", theme |-> <<>>]
    ELSE [ok |-> TRUE, exc |-> "",
          theme |-> [f \in ThemeFields |->
                        IF f \in DOMAIN content.obj THEN content.obj[f]
                        ELSE field_default(f)]]

\* Theme.validate: the first color field, in the order of color_fields, that
\* is no string (re.match raises TypeError) or does not match (ValueError).
validate(theme) ==
    LET bad == {i \in 1 .. Len(color_fields) :
                  \/ theme[color_fields[i]].t # "str"
                  \/ ~hex_color_match(theme[color_fields[i]].s)}
    IN IF bad = {} THEN [ok |-> TRUE, exc |-> "", field |-> ""]
       ELSE LET i == CHOOSE j \in bad : \A k \in bad : j <= k IN
            [ok |-> FALSE,
             exc |-> IF theme[color_fields[i]].t # "str" THEN "TypeError" ELSE "ValueError",
             field |-> color_fields[i]]

\* ThemeManager._default_theme
default_theme ==
    [f \in ThemeFields |->
        CASE f = "name" -> Str(<<"F", "e", "a", "t", "u", "r", "e", "-", "B", "a", "s", "e", "d", " ", "S", "h", "a", "d", "i", "n", "g">>)
          [] f = "description" -> Str(<<"D", "e", "f", "a", "u", "l", "t", " ", "t", "h", "e", "m", "e", " ", "w", "i", "t", "h", " ", "r", "o", "a", "d", " ", "h", "i", "e", "r", "a", "r", "c", "h", "y", " ", "c", "o", "l", "o", "r", "i", "n", "g">>)
          [] OTHER -> field_default(f)]

\* ThemeManager.load_theme: the default theme when <name>.json does not
\* exist or when from_json or validate raises, the theme of the file otherwise.
load_theme(dir, name) ==
    IF name \notin DOMAIN dir THEN [raised |-> FALSE, theme |-> default_theme]
    ELSE LET r == from_json(dir[name]) IN
         IF ~r.ok THEN [raised |-> FALSE, theme |-> default_theme]
         ELSE IF ~validate(r.theme).ok THEN [raised |-> FALSE, theme |-> default_theme]
         ELSE [raised |-> FALSE, theme |-> r.theme]

\* Theme.to_json(path) with path = themes_dir / "<name>.json": open(path, "w")
\* and json.dump(asdict(self), f, indent=2) leave a file that holds an object
\* with every field of the theme, in place of what the file held.
to_json(dir, name, theme) ==
    [n \in DOMAIN dir \cup {name} |->
        IF n = name THEN [kind |-> "object", obj |-> theme] ELSE dir[n]]

\* ThemeManager.list_themes: sorted(self.themes_dir.glob("*.json")) orders the
\* paths by file name; the names returned are the stems.
theme_file(name) == name \o <<".", "j", "s", "o", "n">>
list_themes(dir) ==
    LET fs == sorted({theme_file(n) : n \in DOMAIN dir}) IN
    [i \in 1 .. Len(fs) |-> SubSeq(fs[i], 1, Len(fs[i]) - 5)]

----------------------------------------------------------------------------
(* Use of one ThemeManager over a themes directory (SpecTheme): one call   *)
(* of load_theme, validate or list_themes, the first and the last of them *)
(* also after a theme has been saved into the directory.                  *)

ThemeNames == {<<"a">>, <<"b">>}

\* Color values a theme file may give.
ColorInputs ==
    {Str(<<"#", "F", "F", "F", "F", "F", "F">>), Str(<<"#", "a", "1", "B", "2", "c", "3">>), Str(<<"#", "F", "F", "F", "F", "F">>), Str(<<"#", "F", "F", "F", "F", "F", "F", "F">>), Str(<<"#", "G", "G", "G", "G", "G", "G">>),
     Str(<<"F", "F", "F", "F", "F", "F">>), Str(<<"#", "F", "F", "F", "F", "F", "F", "\n">>), Str(<<>>), Num}

\* A theme file that names a theme and overrides one color field.
theme_object(f, c) == ("name" :> Str(<<"T">>)) @@ (f :> c)

ThemeContents ==
    {[kind |-> "garbage", obj |-> <<>>], [kind |-> "array", obj |-> <<>>]}
    \cup {[kind |-> "object", obj |-> theme_object(f, c)] :
            f \in ColorFields, c \in ColorInputs}
    \cup {[kind |-> "object", obj |-> ("bg" :> Str(<<"#", "a", "1", "B", "2", "c", "3">>))],
          [kind |-> "object", obj |-> theme_object("font", Str(<<>>))],
          [kind |-> "object", obj |-> ("name" :> Str(<<"T">>))]}

\* Names of theme files listed together.
ListedNames == {<<"a">>, <<"b">>, <<"a", "-", "b">>, <<"a", "_", "b">>, <<"B">>}

\* Themes directories: no file, one file with any of the contents, or
\* several valid theme files.
ThemeDirs ==
    {<<>>} \cup {(n :> c) : n \in ThemeNames, c \in ThemeContents}
    \cup {[n \in N |-> [kind |-> "object", obj |-> ("name" :> Str(<<"T">>))]] :
            N \in (SUBSET ListedNames) \ {{}}}

InitTheme ==
    /\ files = <<>>
    /\ InitRest
    /\ themes_dir \in ThemeDirs
    /\ fn = NoCall

LoadTheme(name) ==
    /\ tret.op \in {"", "to_json"}
    /\ tret' = [op |-> "load", name |-> name,
                raised |-> load_theme(themes_dir, name).raised,
                theme |-> load_theme(themes_dir, name).theme]
    /\ UNCHANGED <<cacheVars, fetchVars, ncalls, fad, themes_dir, posterVars, unitVars>>

DoLoadTheme == \E name \in ThemeNames : LoadTheme(name)

\* Theme(name="T", <f>=<c>): a record built in the program, one color field
\* given and the others left to their defaults.
theme_record(f, c) ==
    [g \in ThemeFields |->
        IF g = f THEN c ELSE IF g = "name" THEN Str(<<"T">>) ELSE field_default(g)]

\* theme.validate() on such a record.
Validate(theme) ==
    /\ tret.op = ""
    /\ tret' = [op |-> "validate", name |-> theme["name"].s,
                raised |-> ~validate(theme).ok, theme |-> theme]
    /\ UNCHANGED <<cacheVars, fetchVars, ncalls, fad, themes_dir, posterVars, unitVars>>

DoValidate == \E f \in ColorFields, c \in ColorInputs : Validate(theme_record(f, c))

\* theme_manager.list_themes()
ListThemes ==
    /\ tret.op \in {"", "to_json"}
    /\ tret' = [op |-> "list", name |-> <<>>, raised |-> FALSE,
                theme |-> list_themes(themes_dir)]
    /\ UNCHANGED <<cacheVars, fetchVars, ncalls, fad, themes_dir, posterVars, unitVars>>

\* Themes that the program saves: a color, a color followed by a newline
\* and a string that is no color in the field bg.
SavedThemes ==
    {theme_record("bg", c) :
        c \in {Str(<<"#", "a", "1", "B", "2", "c", "3">>),
               Str(<<"#", "F", "F", "F", "F", "F", "F", "\n">>),
               Str(<<"#", "G", "G", "G", "G", "G", "G">>)}}

\* theme.to_json(themes_dir / "<name>.json")
ToJson(name, theme) ==
    /\ tret.op = ""
    /\ themes_dir' = to_json(themes_dir, name, theme)
    /\ tret' = [op |-> "to_json", name |-> name, raised |-> FALSE, theme |-> theme]
    /\ UNCHANGED <<cacheVars, fetchVars, ncalls, fad, posterVars, unitVars>>

DoToJson == \E name \in ThemeNames, theme \in SavedThemes : ToJson(name, theme)

NextTheme == DoLoadTheme \/ DoValidate \/ ListThemes \/ DoToJson

SpecTheme == InitTheme /\ [][NextTheme]_vars

\* A color as the theme format defines it: "#" and six hexadecimal digits.
is_color(v) == v.t = "str" /\ hex_color_match_strict(v.s)

\* The file of a theme holds an object that gives some color field a value
\* that is no color.
has_invalid_color(content) ==
    /\ content.kind = "object"
    /\ \E f \in ColorFields \cap DOMAIN content.obj : ~is_color(content.obj[f])

\* C10 as stated: load_theme does not raise, and returns the default theme
\* for a name without a file, for a file that is not JSON and for a file with
\* an invalid color.
ThemeFallback ==
    tret.op = "load" =>
        /\ ~tret.raised
        /\ (\/ tret.name \notin DOMAIN themes_dir
            \/ themes_dir[tret.name].kind = "garbage"
            \/ has_invalid_color(themes_dir[tret.name]))
           => tret.theme = default_theme

\* C21 as stated: list_themes returns the stems of the definition files of
\* the themes directory, each exactly once, in lexicographic order of the
\* names.
ListThemesSorted ==
    tret.op = "list" =>
        LET names == tret.theme IN
        /\ {names[i] : i \in 1 .. Len(names)} = DOMAIN themes_dir
        /\ Len(names) = Cardinality(DOMAIN themes_dir)
        /\ \A i, j \in 1 .. Len(names) : i < j => str_less(names[i], names[j])

\* list_themes returns the stems, each exactly once, in the lexicographic
\* order of the file names.
ListThemesSortedByFileName ==
    tret.op = "list" =>
        LET names == tret.theme IN
        /\ {names[i] : i \in 1 .. Len(names)} = DOMAIN themes_dir
        /\ Len(names) = Cardinality(DOMAIN themes_dir)
        /\ \A i, j \in 1 .. Len(names) :
              i < j => str_less(theme_file(names[i]), theme_file(names[j]))

\* C20 as stated: validate() fails for a theme record in which some color
\* field is not "#" followed by six hexadecimal digits, and succeeds when all
\* eleven color fields have that form.
ThemeValidation ==
    tret.op = "validate" =>
        (tret.raised <=> \E f \in ColorFields : ~is_color(tret.theme[f]))

----------------------------------------------------------------------------
(* The orchestrator (create_map_poster.py).  gen.trace lists the calls     *)
(* generate_poster has made to its collaborators, gen.results what the     *)
(* geocode and fetch calls gave ("value", "None" or the exception raised), *)
(* gen.rendered the arguments of each call of the renderer.                *)

\* Output formats, and what the renderer may do: write the file, or raise.
Formats == {<<"p", "n", "g">>}
\* StandardRenderer.render: its steps in the order of the code; savefig, the
\* step that writes the destination file, is the last one that can fail.
render_steps ==
    <<"subplots", "project_graph", "_render_features", "_get_edge_colors",
      "_get_edge_widths", "_get_crop_limits", "plot_graph",
      "_create_gradient_fade", "_render_typography", "savefig">>
\* A render runs through (failed = 0) or raises in step failed; a savefig that
\* raises may have left a file behind (file) or not.
RenderOutcomes ==
    {[failed |-> 0, file |-> TRUE]}
    \cup {[failed |-> i, file |-> FALSE] : i \in 1 .. Len(render_steps)}
    \cup {[failed |-> Len(render_steps), file |-> TRUE]}

\* A renderer that writes the destination file right after the canvas is set up.
render_save_first(ps, path, outcome) ==
    [posters |-> IF outcome.failed = 1 THEN ps ELSE ps \cup {path},
     raised |-> outcome.failed # 0]

\* StandardRenderer.render: the output directory after it, and whether it
\* raised.  The file is written when the steps before savefig have all run.
render(ps, path, outcome) ==
    LET reached == \A i \in 1 .. Len(render_steps) :
                      (outcome.failed # 0 /\ i >= outcome.failed) => render_steps[i] = "savefig"
    IN [posters |-> IF reached /\ outcome.file THEN ps \cup {path} ELSE ps,
        raised |-> outcome.failed # 0]
\* The radius asked for on the command line.
Distances == {1}

failed_street_network == <<"Failed to retrieve street network data">>

\* city.lower().replace(" ", "_")
city_slug(city) ==
    [i \in 1 .. Len(city) |-> IF str_lower(city)[i] = " " THEN "_" ELSE str_lower(city)[i]]

\* OutputManager.generate_filename: f"{city_slug}_{theme_name}_{timestamp}.{ext}"
\* with the time of day to the second.
generate_filename(city, theme_name, output_format, t) ==
    city_slug(city) \o <<"_">> \o theme_name \o <<"_">> \o nat_str(t \div 10)
    \o <<".">> \o str_lower(output_format)

\* generate_poster raises: the exception leaves the call.
poster_raise(g, status, msg) == [g EXCEPT !.pc = "done", !.status = status, !.msg = msg]

\* "coords = self.geocoder.geocode(city, country)": an exception of geocode
\* propagates; otherwise fetch_graph is next.
after_geocode(g, f) ==
    LET h == [g EXCEPT !.results = Append(@, f.status)] IN
    IF f.status # "value" THEN poster_raise(h, f.status, f.msg)
    ELSE [h EXCEPT !.pc = "graph", !.coords = f.val.v,
                   !.trace = Append(@, "fetch_graph")]

\* A generate_poster that goes on without a street network.
after_fetch_graph_lenient(g, f) ==
    LET h == [g EXCEPT !.results = Append(@, f.status)] IN
    IF f.status \notin {"value", "None"} THEN poster_raise(h, f.status, f.msg)
    ELSE [h EXCEPT !.pc = "water", !.graph = f.val,
                   !.trace = Append(@, "fetch_features")]

\* "graph = ...fetch_graph(coords, distance)" and "if graph is None: raise
\* RuntimeError(...)"; otherwise the water features are next.
after_fetch_graph(g, f) ==
    LET h == [g EXCEPT !.results = Append(@, f.status)] IN
    IF f.status = "None" THEN poster_raise(h, "RuntimeError", failed_street_network)
    ELSE IF f.status # "value" THEN poster_raise(h, f.status, f.msg)
    ELSE [h EXCEPT !.pc = "water", !.graph = f.val,
                   !.trace = Append(@, "fetch_features")]

\* "water = ...fetch_features(..., "water")": None is kept as the layer.
after_fetch_water(g, f) ==
    LET h == [g EXCEPT !.results = Append(@, f.status)] IN
    IF f.status \notin {"value", "None"} THEN poster_raise(h, f.status, f.msg)
    ELSE [h EXCEPT !.pc = "parks", !.water = f.val,
                   !.trace = Append(@, "fetch_features")]

\* "parks = ...fetch_features(..., "parks")", then load_theme,
\* generate_filename and render, and "return output_path".
after_fetch_parks(g, f, dir, t, ps, outcome) ==
    LET h == [g EXCEPT !.results = Append(@, f.status), !.posters0 = ps]
        th == load_theme(dir, g.theme_name)
        path == generate_filename(g.city, g.theme_name, g.output_format, t)
    IN IF f.status \notin {"value", "None"} THEN poster_raise(h, f.status, f.msg)
       ELSE IF th.raised
       THEN poster_raise([h EXCEPT !.parks = f.val, !.trace = Append(@, "load_theme")],
                         "ThemeError", <<>>)
       ELSE LET r == [h EXCEPT !.parks = f.val, !.theme = th.theme,
                               !.output_path = path,
                               !.trace = @ \o <<"load_theme", "generate_filename", "render">>,
                               !.render_failed = outcome.failed,
                               !.rendered = Append(@, [graph |-> g.graph, water |-> g.water,
                                                       parks |-> f.val, path |-> path])]
            IN IF ~render(ps, path, outcome).raised
               THEN [r EXCEPT !.pc = "done", !.status = "returned"]
               ELSE poster_raise(r, "RenderError", <<>>)

\* The head of generate_poster: the frame, and the call of geocode.
generate_poster(city, country, theme_name, distance, output_format) ==
    /\ thr["main"].pc \in {"idle", "done"}
    /\ gen' = [NoPoster EXCEPT !.pc = "geocode", !.city = city, !.country = country,
                               !.theme_name = theme_name, !.distance = distance,
                               !.output_format = output_format,
                               !.trace = <<"geocode">>]
    /\ geocode("main", city, country)

\* The steps of generate_poster after each of its calls has returned.
poster_geocoded ==
    /\ gen.pc = "geocode" /\ thr["main"].pc = "done"
    /\ gen' = after_geocode(gen, thr["main"])
    /\ IF gen'.pc = "graph" THEN fetch_graph("main", gen'.coords, gen.distance)
       ELSE UNCHANGED <<cacheVars, fetchVars>>
    /\ UNCHANGED posters

poster_graph_fetched ==
    /\ gen.pc = "graph" /\ thr["main"].pc = "done"
    /\ gen' = after_fetch_graph(gen, thr["main"])
    /\ IF gen'.pc = "water"
       THEN fetch_features("main", gen.coords, gen.distance, WATER_TAGS, WATER)
       ELSE UNCHANGED <<cacheVars, fetchVars>>
    /\ UNCHANGED posters

poster_water_fetched ==
    /\ gen.pc = "water" /\ thr["main"].pc = "done"
    /\ gen' = after_fetch_water(gen, thr["main"])
    /\ IF gen'.pc = "parks"
       THEN fetch_features("main", gen.coords, gen.distance, PARKS_TAGS, PARKS)
       ELSE UNCHANGED <<cacheVars, fetchVars>>
    /\ UNCHANGED posters

poster_parks_fetched(outcome) ==
    /\ gen.pc = "parks" /\ thr["main"].pc = "done"
    /\ gen' = after_fetch_parks(gen, thr["main"], themes_dir, now, posters, outcome)
    /\ posters' = IF Len(gen'.rendered) = 1
                  THEN render(posters, gen'.output_path, outcome).posters
                  ELSE posters
    /\ UNCHANGED <<cacheVars, fetchVars>>

\* generate_all_themes, up to the first generate_poster: with no theme the
\* loop is empty and [] is returned.
generate_all_themes(city, country, distance, output_format) ==
    LET themes == list_themes(themes_dir) IN
    IF Len(themes) = 0
    THEN /\ batch' = [NoBatch EXCEPT !.pc = "returned"]
         /\ UNCHANGED <<cacheVars, fetchVars, gen>>
    ELSE /\ batch' = [NoBatch EXCEPT !.pc = "running", !.themes = themes, !.i = 1,
                                     !.attempted = <<themes[1]>>]
         /\ generate_poster(city, country, themes[1], distance, output_format)

\* A loop that skips a theme whose poster failed and goes on with the next.
batch_next_skipping ==
    /\ batch.pc = "running" /\ gen.pc = "done"
    /\ LET paths == IF gen.status = "returned"
                    THEN Append(batch.output_paths, gen.output_path)
                    ELSE batch.output_paths
       IN IF batch.i = Len(batch.themes)
          THEN /\ batch' = [batch EXCEPT !.pc = "returned", !.output_paths = paths,
                                         !.outcomes = Append(@, gen.status)]
               /\ UNCHANGED <<cacheVars, fetchVars, gen>>
          ELSE /\ batch' = [batch EXCEPT !.i = @ + 1, !.output_paths = paths,
                                         !.outcomes = Append(@, gen.status),
                                         !.attempted = Append(@, batch.themes[batch.i + 1])]
               /\ generate_poster(gen.city, gen.country, batch.themes[batch.i + 1],
                                  gen.distance, gen.output_format)

\* The loop of generate_all_themes once generate_poster is back: its
\* exception ends the batch, its path is appended and the next theme begins.
batch_next ==
    /\ batch.pc = "running" /\ gen.pc = "done"
    /\ IF gen.status # "returned"
       THEN /\ batch' = [batch EXCEPT !.pc = "raised",
                                      !.outcomes = Append(@, gen.status)]
            /\ UNCHANGED <<cacheVars, fetchVars, gen>>
       ELSE IF batch.i = Len(batch.themes)
       THEN /\ batch' = [batch EXCEPT !.pc = "returned",
                                      !.output_paths = Append(@, gen.output_path),
                                      !.outcomes = Append(@, gen.status)]
            /\ UNCHANGED <<cacheVars, fetchVars, gen>>
       ELSE /\ batch' = [batch EXCEPT !.i = @ + 1,
                                      !.output_paths = Append(@, gen.output_path),
                                      !.outcomes = Append(@, gen.status),
                                      !.attempted = Append(@, batch.themes[batch.i + 1])]
            /\ generate_poster(gen.city, gen.country, batch.themes[batch.i + 1],
                               gen.distance, gen.output_format)

----------------------------------------------------------------------------
(* One run of the application over a themes directory (SpecPoster): one    *)
(* generate_poster, or generate_all_themes.                                *)

PosterCities == {<<"P", "a">>}
\* A valid theme file.
plain_theme == [kind |-> "object", obj |-> ("name" :> Str(<<"T">>))]
PosterThemeDirs ==
    {(<<"a">> :> plain_theme),
     (<<"a">> :> plain_theme) @@ (<<"b">> :> plain_theme),
     (<<"a">> :> plain_theme) @@ (<<"b">> :> plain_theme) @@ (<<"c">> :> plain_theme)}

InitPoster ==
    /\ files = <<>>
    /\ InitRest
    /\ themes_dir \in PosterThemeDirs
    /\ fn = NoCall

app_step == UNCHANGED <<ncalls, fad, themeVars, unitVars>>

GeneratePoster ==
    /\ ncalls = 0 /\ ncalls' = 1
    /\ \E city \in PosterCities, country \in Countries, theme_name \in ThemeNames,
          distance \in Distances, output_format \in Formats :
          generate_poster(city, country, theme_name, distance, output_format)
    /\ UNCHANGED <<fad, themeVars, batch, posters, unitVars>>

GenerateAllThemes ==
    /\ ncalls = 0 /\ ncalls' = 1
    /\ \E city \in PosterCities, country \in Countries,
          distance \in Distances, output_format \in Formats :
          generate_all_themes(city, country, distance, output_format)
    /\ UNCHANGED <<fad, themeVars, posters, unitVars>>

PosterGeocoded == app_step /\ poster_geocoded /\ UNCHANGED batch

PosterGraphFetched == app_step /\ poster_graph_fetched /\ UNCHANGED batch

PosterWaterFetched == app_step /\ poster_water_fetched /\ UNCHANGED batch

PosterParksFetched ==
    /\ app_step
    /\ \E outcome \in RenderOutcomes : poster_parks_fetched(outcome)
    /\ UNCHANGED batch

BatchNext == app_step /\ batch_next /\ UNCHANGED posters

\* The answers taken in the runs of the application: one location, one
\* payload, and a cache.set that succeeds or is cut off before the first byte.
PosterReplies ==
    {r \in Replies("main") :
        /\ r.value \in {NoneV, IntV(0), TupleV(0, 0)}
        /\ r.io \in {[kind |-> "ok", n |-> Len(pickle_dump(r.value))],
                     [kind |-> "ok", n |-> 0], [kind |-> "write", n |-> 0]}}

PosterReply ==
    /\ call_goes_on
    /\ \E r \in PosterReplies, latency \in TaskLatencies :
          provider_reply("main", r.outcome, r.value, latency, r.io)

PosterSleep == call_goes_on /\ rate_limit_sleep("main", 0)

NextPoster ==
    \/ GeneratePoster
    \/ GenerateAllThemes
    \/ PosterGeocoded
    \/ PosterGraphFetched
    \/ PosterWaterFetched
    \/ PosterParksFetched
    \/ BatchNext
    \/ RateLimitRead
    \/ PosterSleep
    \/ RateLimitStamp
    \/ PosterReply

SpecPoster == InitPoster /\ [][NextPoster]_vars

Count(seq, x) == Cardinality({i \in 1 .. Len(seq) : seq[i] = x})

\* C7: when geocode raises, generate_poster raises having called nothing
\* else; when fetch_graph returns None, generate_poster raises RuntimeError
\* having called only geocode and fetch_graph; the renderer is not invoked.
GeocodeAndGraphFatal ==
    gen.pc = "done" =>
        /\ (Len(gen.results) >= 1 /\ gen.results[1] # "value") =>
              /\ gen.status = gen.results[1]
              /\ gen.trace = <<"geocode">>
              /\ gen.rendered = <<>>
        /\ (Len(gen.results) >= 2 /\ gen.results[2] = "None") =>
              /\ gen.status = "RuntimeError"
              /\ gen.trace = <<"geocode", "fetch_graph">>
              /\ gen.rendered = <<>>

\* C7 witness: a generate_poster that geocoded its city and was ended by a
\* street network that could not be fetched.
PosterWithoutGraph ==
    /\ gen.pc = "done"
    /\ gen.results = <<"value", "None">>
    /\ gen.status = "RuntimeError"

\* C8 as stated: when geocode returned and fetch_graph returned a graph,
\* generate_poster invokes the renderer exactly once, with the layers as
\* fetch_features returned them, and returns the output path unless the
\* renderer itself fails.
LayerFailureNotFatal ==
    (gen.pc = "done" /\ Len(gen.results) >= 2 /\ gen.results[2] = "value") =>
        /\ Len(gen.rendered) = 1
        /\ gen.rendered[1].water = gen.water
        /\ gen.rendered[1].parks = gen.parks
        /\ Count(gen.trace, "render") = 1
        /\ gen.status \in {"returned", "RenderError"}

\* C16: a render that raises in a step before savefig leaves the output
\* directory as it was, with no file at the output path.
NoPartialOutput ==
    (/\ gen.pc = "done" /\ Len(gen.rendered) = 1
     /\ gen.render_failed # 0
     /\ render_steps[gen.render_failed] # "savefig") =>
        /\ gen.status = "RenderError"
        /\ posters = gen.posters0
        /\ gen.output_path \notin posters

\* C16 witness: the second poster of a batch failed in the typography, the
\* step before savefig, and the poster of the first theme is on disk.
TypographyFailed ==
    /\ gen.pc = "done" /\ Len(gen.rendered) = 1
    /\ gen.render_failed # 0
    /\ render_steps[gen.render_failed] = "_render_typography"
    /\ posters # {}

\* No provider request has failed and no cache.set has raised so far.
AllSucceeded == ~request_failed /\ ~set_failed

\* The provider requests issued so far: one geocode, one graph, two features.
each_issued_once ==
    /\ Len(issued["geocode"]) = 1
    /\ Len(issued["graph"]) = 1
    /\ Len(issued["features"]) = 2

\* C26: in a generate_all_themes that starts with an empty cache and in
\* which every provider request and every cache write succeeds, the four
\* provider requests are issued once each while the first theme is
\* generated; every call made for a later theme is answered from the cache,
\* without a provider request and without a rate-limit wait.
BatchServedFromCache ==
    (batch.pc \in {"running", "returned"} /\ AllSucceeded) =>
        /\ Len(issued["geocode"]) <= 1
        /\ Len(issued["graph"]) <= 1
        /\ Len(issued["features"]) <= 2
        /\ Len(batch.attempted) >= 2 =>
              /\ each_issued_once
              /\ thr["main"].pc = "done"
              /\ thr["main"].status = "value"
              /\ ~thr["main"].slept
              /\ thr["main"].n0 = Len(issued[thr["main"].cls])
              /\ thr["main"].tend = thr["main"].t0
        /\ batch.pc = "returned" => each_issued_once

\* C26 witness: a batch over three themes returned three paths, nothing
\* failed, and the last call of the third theme was a cache hit.
BatchOfThreeReturned ==
    /\ batch.pc = "returned" /\ AllSucceeded
    /\ Len(batch.output_paths) = 3
    /\ each_issued_once
    /\ thr["main"].cls = "features" /\ thr["main"].provider = ""

\* C27: generate_all_themes calls generate_poster for the themes one after
\* another in the order of list_themes; a call that fails is the last one,
\* the batch raises instead of returning paths, and the posters of the
\* themes before it are on disk.
BatchAbortsOnFailure ==
    batch.pc # "idle" =>
        /\ batch.attempted = SubSeq(list_themes(themes_dir), 1, Len(batch.attempted))
        /\ \A j \in 1 .. Len(batch.outcomes) :
              batch.outcomes[j] # "returned" =>
                 /\ j = Len(batch.attempted)
                 /\ batch.pc = "raised"
        /\ batch.pc = "raised" =>
              /\ Len(batch.output_paths) = Len(batch.attempted) - 1
              /\ \A j \in 1 .. Len(batch.output_paths) : batch.output_paths[j] \in posters
              /\ Cardinality(posters) >= Len(batch.output_paths)
        /\ batch.pc = "returned" =>
              /\ batch.attempted = list_themes(themes_dir)
              /\ \A j \in 1 .. Len(batch.outcomes) : batch.outcomes[j] = "returned"

\* C27 witness: a batch over three themes failed at the second: it raised,
\* the third theme was not attempted and the poster of the first is on disk.
BatchFailedAtSecond ==
    /\ batch.pc = "raised"
    /\ Len(batch.themes) = 3 /\ Len(batch.attempted) = 2
    /\ batch.output_paths # <<>>
    /\ batch.output_paths[1] \in posters

----------------------------------------------------------------------------
(* The cache keys of the fetcher, computed for two requests (SpecKeys).    *)
(* A request gives its tags as a dict literal: a sequence of name/value    *)
(* items in the order written.                                             *)

\* The dict a literal builds: a later item of a name replaces an earlier one.
RECURSIVE dict_of(_)
dict_of(items) ==
    IF Len(items) = 0 THEN <<>>
    ELSE (items[Len(items)][1] :> items[Len(items)][2])
         @@ dict_of(SubSeq(items, 1, Len(items) - 1))

TagNames == {<<"a">>, <<"b">>, <<"a", "_", "b">>}
TagValues == {<<"x">>, <<"y">>}
TagItems == {<<n, v>> : n \in TagNames, v \in TagValues}
TagLiterals ==
    {<<i>> : i \in TagItems}
    \cup {p \in TagItems \X TagItems : p[1][1] # p[2][1]}
KeyDists == {1, 2}
KeyRequests ==
    [kind : {"features"}, point : FetchPoints, dist : KeyDists,
     items : TagLiterals, name : {WATER}]
    \cup [kind : {"graph"}, point : FetchPoints, dist : KeyDists,
          items : {<<>>}, name : {<<>>}]

\* The key the fetcher derives for a request.
request_key(r) ==
    IF r.kind = "graph" THEN graph_cache_key(r.point, r.dist)
    ELSE features_cache_key(r.point, r.dist, dict_of(r.items), r.name)

\* Geocode requests: names that differ in letter case or hold a "_".
GeoNames ==
    {<<"a">>, <<"A">>, <<"b">>, <<"c">>, <<"a", "_", "b">>, <<"b", "_", "c">>}
GeoRequests == [kind : {"geocode"}, city : GeoNames, country : GeoNames]

InitKeys ==
    /\ files = <<>>
    /\ InitRest
    /\ themes_dir = <<>>
    /\ fn \in [op : {""},
               args : (KeyRequests \X KeyRequests) \cup (GeoRequests \X GeoRequests),
               ret : {<<>>}]

\* NominatimGeocoder._cache_key for two requests.
GeocodeKeysOf ==
    /\ fn.op = "" /\ fn.args[1].kind = "geocode"
    /\ fn' = [fn EXCEPT !.op = "_cache_key",
                        !.ret = <<geocode_cache_key(fn.args[1].city, fn.args[1].country),
                                  geocode_cache_key(fn.args[2].city, fn.args[2].country)>>]
    /\ UNCHANGED <<cacheVars, fetchVars, ncalls, fad, themeVars, posterVars, cop, cli>>

CacheKeysOf ==
    /\ fn.op = "" /\ fn.args[1].kind # "geocode"
    /\ fn' = [fn EXCEPT !.op = "cache_key",
                        !.ret = <<request_key(fn.args[1]), request_key(fn.args[2])>>]
    /\ UNCHANGED <<cacheVars, fetchVars, ncalls, fad, themeVars, posterVars, cop, cli>>

NextKeys == CacheKeysOf \/ GeocodeKeysOf

SpecKeys == InitKeys /\ [][NextKeys]_vars

\* Two requests with the same logical parameters: the same kind, point,
\* radius and layer name, and the same tags whatever their order.
same_request(r1, r2) ==
    /\ r1.kind = r2.kind /\ r1.point = r2.point /\ r1.dist = r2.dist
    /\ r1.name = r2.name
    /\ dict_of(r1.items) = dict_of(r2.items)

\* C11 as stated: requests with the same logical parameters derive the same
\* key, and requests of one kind that differ in radius or in their tags
\* derive different keys.
CacheKeyDeterminism ==
    fn.op = "cache_key" =>
        LET r1 == fn.args[1]
            r2 == fn.args[2]
        IN /\ same_request(r1, r2) => fn.ret[1] = fn.ret[2]
           /\ (/\ r1.kind = r2.kind
               /\ \/ r1.dist # r2.dist
                  \/ dict_of(r1.items) # dict_of(r2.items))
              => fn.ret[1] # fn.ret[2]

\* C29 as stated: two geocode requests share a cache key only if their city
\* names are equal ignoring letter case and their country names are equal
\* ignoring letter case.
GeocodeKeysSeparate ==
    (fn.op = "_cache_key" /\ fn.ret[1] = fn.ret[2]) =>
        /\ str_lower(fn.args[1].city) = str_lower(fn.args[2].city)
        /\ str_lower(fn.args[1].country) = str_lower(fn.args[2].country)

\* Requests whose names hold no "_" share a key only if they name the same
\* place ignoring letter case.
GeocodeKeysSeparatePlainNames ==
    (/\ fn.op = "_cache_key" /\ fn.ret[1] = fn.ret[2]
     /\ \A i \in 1 .. 2 : ~contains(fn.args[i].city, <<"_">>) /\ ~contains(fn.args[i].country, <<"_">>))
    =>
        /\ str_lower(fn.args[1].city) = str_lower(fn.args[2].city)
        /\ str_lower(fn.args[1].country) = str_lower(fn.args[2].country)

----------------------------------------------------------------------------
(* Concurrent use of one key of the cache (SpecRace).  A set is three      *)
(* kinds of steps: open(cache_path, "wb") truncates the file, the buffered *)
(* writer hands the pickle to the file in one or more writes at the        *)
(* position of its own file handle, and the file is closed.  A get tests   *)
(* that the file exists and opens it, and pickle.load then reads the file  *)
(* whenever the unpickler has run out of input: each read returns the      *)
(* bytes the file holds at that moment from the position of the reader.    *)

RaceKey == graph_cache_key(<<0, 0>>, 1)
RaceValues == provider_values("geocode") \cup provider_values("graph")

\* write(2) of data at offset pos of a file: a gap before pos reads as zeros.
pwrite(content, pos, data) ==
    LET n == IF Len(content) > pos + Len(data) THEN Len(content) ELSE pos + Len(data) IN
    [i \in 1 .. n |->
        IF i > pos /\ i <= pos + Len(data) THEN data[i - pos]
        ELSE IF i <= Len(content) THEN content[i] ELSE 0]

\* CacheManager.set, "with open(cache_path, "wb") as f": the file is empty.
\* The value is noted in written as the one the sets of the run write.
set_open(t, key, value) ==
    /\ cop[t].pc \in {"idle", "done"}
    /\ files' = write_file(files, cache_key_to_filename(key), <<>>)
    /\ cop' = [cop EXCEPT ![t] = [IdleOp EXCEPT !.pc = "open", !.op = "set",
                                                !.key = key, !.value = value]]
    /\ written' = note_written(written, key, value, FALSE)

\* pickle.dump(value, f, ...): the next n bytes of the pickle reach the file:
\* MaxPiece bytes at most, or, in the last of MaxWrites writes at the latest,
\* all the rest of it.
set_write(t, n) ==
    /\ cop[t].pc = "open"
    /\ n >= 1 /\ cop[t].pos + n <= Len(pickle_dump(cop[t].value))
    /\ \/ cop[t].pos + n = Len(pickle_dump(cop[t].value))
       \/ cop[t].writes + 1 < MaxWrites /\ n <= MaxPiece
    /\ LET name == cache_key_to_filename(cop[t].key)
           data == SubSeq(pickle_dump(cop[t].value), cop[t].pos + 1, cop[t].pos + n)
       IN files' = write_file(files, name,
                     pwrite(IF name \in DOMAIN files THEN files[name] ELSE <<>>,
                            cop[t].pos, data))
    /\ cop' = [cop EXCEPT ![t].pos = @ + n, ![t].writes = @ + 1]
    /\ UNCHANGED written

\* The with block ends: every byte has been written, set returns.
set_close(t) ==
    /\ cop[t].pc = "open"
    /\ cop[t].pos = Len(pickle_dump(cop[t].value))
    /\ cop' = [cop EXCEPT ![t].pc = "done", ![t].status = "ok"]
    /\ UNCHANGED <<files, written>>

\* One read of pickle.load(f) from the buffered reader f.  The unpickler in
\* want of input first peeks, which reads the file when the reader holds
\* nothing ("peek"), then reads until it has what it wants or the file gives
\* nothing ("read"): only then has it run out of input.  buf holds the bytes
\* read so far, content the file as it is now, want the length asked for.
load_step(pc, want, buf, content) ==
    LET data == SubSeq(content, Len(buf) + 1, Len(content))
        got == buf \o data
        r == pickle_load(got)
    IN IF r.ok THEN [pc |-> "done", want |-> 0, buf |-> got, status |-> "ok", val |-> r.val]
       ELSE IF r.more = 0 \/ (r.more = want /\ pc = "read" /\ data = <<>>)
       THEN [pc |-> "done", want |-> 0, buf |-> got, status |-> "CacheError", val |-> NoneV]
       ELSE [pc |-> IF r.more = want \/ Len(got) > r.at THEN "read" ELSE "peek",
             want |-> r.more, buf |-> got, status |-> "", val |-> NoneV]

\* CacheManager.get, "if not cache_path.exists(): return None" and
\* "with open(cache_path, "rb") as f": no set removes the file in between.
get_open(t, key) ==
    /\ cop[t].pc \in {"idle", "done"}
    /\ cop' = [cop EXCEPT ![t] =
                 IF cache_exists(files, key)
                 THEN [IdleOp EXCEPT !.pc = "peek", !.op = "get", !.key = key, !.want = 1]
                 ELSE [IdleOp EXCEPT !.pc = "done", !.op = "get", !.key = key,
                                     !.status = "none"]]
    /\ UNCHANGED <<files, written>>

\* CacheManager.get, "return pickle.load(f)": the next read of the file, and
\* the return or the CacheError once the unpickler has finished.
get_read(t) ==
    /\ cop[t].pc \in {"peek", "read"}
    /\ LET r == load_step(cop[t].pc, cop[t].want, cop[t].buf,
                          files[cache_key_to_filename(cop[t].key)])
       IN cop' = [cop EXCEPT ![t].pc = r.pc, ![t].want = r.want, ![t].buf = r.buf,
                             ![t].status = r.status, ![t].val = r.val]
    /\ UNCHANGED <<files, written>>

\* The values the sets of the run write: one value for all of them.
SetValues == IF RaceKey \in DOMAIN written THEN written[RaceKey] ELSE RaceValues

race_step == UNCHANGED <<cret, stored, set_failed, fetchVars, fad, themeVars, posterVars, fn, cli>>

RaceSetOpen ==
    /\ ncalls < MaxCalls /\ ncalls' = ncalls + 1
    /\ \E t \in Workers, value \in SetValues : set_open(t, RaceKey, value)
    /\ race_step

RaceSetWrite ==
    /\ \E t \in Workers : \E n \in 1 .. Len(pickle_dump(cop[t].value)) : set_write(t, n)
    /\ race_step /\ UNCHANGED ncalls

RaceSetClose ==
    /\ \E t \in Workers : set_close(t)
    /\ race_step /\ UNCHANGED ncalls

RaceGetOpen ==
    /\ ncalls < MaxCalls /\ ncalls' = ncalls + 1
    /\ \E t \in Workers : get_open(t, RaceKey)
    /\ race_step

RaceGetRead ==
    /\ \E t \in Workers : get_read(t)
    /\ race_step /\ UNCHANGED ncalls

NextRace ==
    \/ RaceSetOpen
    \/ RaceSetWrite
    \/ RaceSetClose
    \/ RaceGetOpen
    \/ RaceGetRead

SpecRace == Init /\ [][NextRace]_vars

\* C13 as stated: with sets of one value v under the key running
\* concurrently, every get of the key returns not found or v.
ConcurrentGetTolerated ==
    \A t \in Threads :
        (cop[t].op = "get" /\ cop[t].pc = "done") =>
            \/ cop[t].status = "none"
            \/ cop[t].status = "ok" /\ cop[t].val \in SetValues

----------------------------------------------------------------------------
(* main() (SpecCli).  A command line is modelled by what argparse makes of *)
(* it: empty (no argument at all), help (-h), bad (an argument argparse    *)
(* rejects), and the values of the options; None is the empty sequence,    *)
(* a given string is <<s>>.                                                *)

\* default="feature_based"
default_theme_name == <<"f", "e", "a", "t", "u", "r", "e", "_", "b", "a", "s", "e", "d">>

CliStrings == {<<>>, <<<<>>>>, <<<<"P", "a">>>>}
CliCountries == {<<>>, <<<<"F", "r">>>>}
CliThemes == {default_theme_name, <<"a">>, <<"z">>}
Argvs ==
    {[empty |-> TRUE, help |-> FALSE, bad |-> FALSE, list_themes |-> FALSE,
      city |-> <<>>, country |-> <<>>, theme |-> default_theme_name,
      all_themes |-> FALSE]}
    \cup [empty : {FALSE}, help : BOOLEAN, bad : {FALSE}, list_themes : BOOLEAN,
          city : CliStrings, country : CliCountries, theme : CliThemes,
          all_themes : BOOLEAN]
    \cup [empty : {FALSE}, help : {FALSE}, bad : {TRUE}, list_themes : {FALSE},
          city : CliStrings, country : {<<>>}, theme : {default_theme_name},
          all_themes : {FALSE}]

\* "not args.city": None or the empty string
not_given(opt) == opt = <<>> \/ opt = <<<<>>>>

\* main() up to "# Generate posters": the exit status it ends with, or -1
\* when it goes on to generate.
main_checks(argv, app_ok, dir) ==
    IF argv.help THEN 0
    ELSE IF argv.bad THEN 2
    ELSE IF argv.empty THEN 0
    ELSE IF ~app_ok THEN 1
    ELSE IF argv.list_themes THEN 0
    ELSE IF not_given(argv.city) \/ not_given(argv.country) THEN 1
    ELSE IF Len(list_themes(dir)) = 0 THEN 1
    ELSE IF ~argv.all_themes
            /\ ~(\E i \in 1 .. Len(list_themes(dir)) : list_themes(dir)[i] = argv.theme)
    THEN 1
    ELSE 0 - 1

\* A main() that reports success whatever the generation did.
generation_exit_zero(failed) == 0

\* The try around the generation: "except Exception ... sys.exit(1)", and
\* status 0 when main returns.
generation_exit(failed) == IF failed THEN 1 ELSE 0

\* --format, as the model takes it.
cli_format == <<"p", "n", "g">>

\* main(): parse_args, the checks, and the call of generate_all_themes or
\* generate_poster.
main(argv, app_ok, distance) ==
    /\ cli.pc = "idle"
    /\ IF main_checks(argv, app_ok, themes_dir) # 0 - 1
       THEN /\ cli' = [pc |-> "exited", argv |-> argv,
                       exit |-> main_checks(argv, app_ok, themes_dir)]
            /\ UNCHANGED <<cacheVars, fetchVars, gen, batch>>
       ELSE /\ cli' = [pc |-> "generating", argv |-> argv, exit |-> 0 - 1]
            /\ IF argv.all_themes
               THEN generate_all_themes(argv.city[1], argv.country[1], distance, cli_format)
               ELSE /\ generate_poster(argv.city[1], argv.country[1], argv.theme,
                                       distance, cli_format)
                    /\ UNCHANGED batch

\* The generation is over: main returns or handles the exception.
main_exit ==
    /\ cli.pc = "generating"
    /\ IF cli.argv.all_themes THEN batch.pc \in {"returned", "raised"}
       ELSE gen.pc = "done"
    /\ cli' = [cli EXCEPT !.pc = "exited",
                 !.exit = generation_exit(IF cli.argv.all_themes THEN batch.pc = "raised"
                                          ELSE gen.status # "returned")]

InitCli ==
    /\ files = <<>>
    /\ InitRest
    /\ themes_dir \in PosterThemeDirs \cup {<<>>}
    /\ fn = NoCall

cli_step == UNCHANGED <<ncalls, fad, themeVars, fn, cop>>

Main ==
    /\ \E argv \in Argvs, app_ok \in BOOLEAN, distance \in Distances :
          main(argv, app_ok, distance)
    /\ cli_step /\ UNCHANGED posters

MainExit ==
    /\ main_exit
    /\ cli_step /\ UNCHANGED <<cacheVars, fetchVars, posterVars>>

NextCli ==
    \/ Main
    \/ MainExit
    \/ PosterGeocoded
    \/ PosterGraphFetched
    \/ PosterWaterFetched
    \/ PosterParksFetched
    \/ BatchNext
    \/ RateLimitRead
    \/ PosterSleep
    \/ RateLimitStamp
    \/ PosterReply

SpecCli == InitCli /\ [][NextCli]_vars

\* No geocoding, data fetch or rendering has been started.
NothingStarted ==
    /\ gen = NoPoster /\ batch = NoBatch /\ posters = {}
    /\ \A t \in Threads : thr[t].pc = "idle"
    /\ \A c \in Classes : issued[c] = <<>>

\* The theme of the command line is not in the theme list.
UnknownTheme(argv) ==
    /\ ~argv.all_themes
    /\ \A i \in 1 .. Len(list_themes(themes_dir)) : list_themes(themes_dir)[i] # argv.theme

\* The generation of the run failed.
GenerationFailed ==
    IF cli.argv.all_themes THEN batch.pc = "raised"
    ELSE gen.pc = "done" /\ gen.status # "returned"

\* C17 as stated: a run without arguments exits 0; any other run with city
\* or country missing, or with a theme that is not in the list, exits
\* non-zero; in these cases nothing is started; a failed generation exits
\* non-zero.
CliExitStatus ==
    cli.pc = "exited" =>
        /\ cli.argv.empty => (cli.exit = 0 /\ NothingStarted)
        /\ (~cli.argv.empty /\ (not_given(cli.argv.city) \/ not_given(cli.argv.country)))
              => (cli.exit # 0 /\ NothingStarted)
        /\ (~cli.argv.empty /\ UnknownTheme(cli.argv))
              => (cli.exit # 0 /\ NothingStarted)
        /\ GenerationFailed => cli.exit # 0

\* The run asks for help or for the list of themes.
InfoRun(argv) == argv.help \/ argv.list_themes

\* C17 as amended: the same, for the runs that ask neither for help (-h) nor
\* for the list of themes (--list-themes); those exit 0 when the application
\* can be created, whatever city, country and theme are, and start nothing.
CliExitStatusOfRuns ==
    cli.pc = "exited" =>
        /\ cli.argv.empty => (cli.exit = 0 /\ NothingStarted)
        /\ (~cli.argv.empty /\ ~InfoRun(cli.argv)
            /\ (not_given(cli.argv.city) \/ not_given(cli.argv.country)))
              => (cli.exit # 0 /\ NothingStarted)
        /\ (~cli.argv.empty /\ ~InfoRun(cli.argv) /\ UnknownTheme(cli.argv))
              => (cli.exit # 0 /\ NothingStarted)
        /\ InfoRun(cli.argv) => NothingStarted
        /\ GenerationFailed => cli.exit # 0

\* C17 witness: a run whose generation failed after the poster of one theme
\* had been written, and that exited with status 1.
FailedRunExited ==
    /\ cli.pc = "exited" /\ cli.exit = 1
    /\ GenerationFailed
    /\ posters # {}

----------------------------------------------------------------------------
(* The road hierarchy of the renderer (renderer.py, SpecEdges).  The data  *)
(* of an edge is a dict that may hold "highway": a string (t = "str", s    *)
(* the string) or a list of strings (t = "list", l the list).  A width is  *)
(* counted in tenths: 12 is the line width 1.2.                            *)

HighwayStr(name) == [t |-> "str", s |-> name, l |-> <<>>]
HighwayList(names) == [t |-> "list", s |-> "", l |-> names]

\* A reading of a multi-valued tag by its last entry.
highway_last(data) ==
    LET highway == IF "highway" \in DOMAIN data THEN data["highway"]
                   ELSE HighwayStr("unclassified")
    IN IF highway.t = "list"
       THEN IF Len(highway.l) > 0 THEN highway.l[Len(highway.l)] ELSE "unclassified"
       ELSE highway.s

\* data.get("highway", "unclassified"), then the first entry of a list, or
\* "unclassified" for an empty list.
highway_of(data) ==
    LET highway == IF "highway" \in DOMAIN data THEN data["highway"]
                   ELSE HighwayStr("unclassified")
    IN IF highway.t = "list"
       THEN IF Len(highway.l) > 0 THEN highway.l[1] ELSE "unclassified"
       ELSE highway.s

\* _get_edge_colors, the if/elif chain: the theme field of a highway type.
edge_color_field(highway) ==
    IF highway \in {"motorway", "motorway_link"} THEN "road_motorway"
    ELSE IF highway \in {"trunk", "trunk_link", "primary", "primary_link"} THEN "road_primary"
    ELSE IF highway \in {"secondary", "secondary_link"} THEN "road_secondary"
    ELSE IF highway \in {"tertiary", "tertiary_link"} THEN "road_tertiary"
    ELSE IF highway \in {"residential", "living_street", "unclassified"} THEN "road_residential"
    ELSE "road_default"

\* _get_edge_widths, the if/elif chain: the width of a highway type, in tenths.
edge_width(highway) ==
    IF highway \in {"motorway", "motorway_link"} THEN 12
    ELSE IF highway \in {"trunk", "trunk_link", "primary", "primary_link"} THEN 10
    ELSE IF highway \in {"secondary", "secondary_link"} THEN 8
    ELSE IF highway \in {"tertiary", "tertiary_link"} THEN 6
    ELSE 4

\* StandardRenderer._get_edge_colors: G is the list of the data of its edges.
get_edge_colors(G, theme) ==
    [i \in 1 .. Len(G) |-> theme[edge_color_field(highway_of(G[i]))]]

\* StandardRenderer._get_edge_widths
get_edge_widths(G) == [i \in 1 .. Len(G) |-> edge_width(highway_of(G[i]))]

MaxEdges == 2
MaxTags == 2

\* The highway types the renderer names, and two it does not.
NamedHighways ==
    {"motorway", "motorway_link", "trunk", "trunk_link", "primary",
     "primary_link", "secondary", "secondary_link", "tertiary",
     "tertiary_link", "residential", "living_street", "unclassified"}
HighwayInputs == NamedHighways \cup {"footway", ""}
ListedHighways == {"motorway_link", "residential", "footway"}
EdgeData ==
    {<<>>}
    \cup {("highway" :> HighwayStr(h)) : h \in HighwayInputs}
    \cup {("highway" :> HighwayList(l)) :
            l \in UNION {[1 .. n -> ListedHighways] : n \in 0 .. MaxTags}}
EdgeGraphs == UNION {[1 .. n -> EdgeData] : n \in 1 .. MaxEdges}

\* A theme whose six road colors differ.
road_fields ==
    <<"road_motorway", "road_primary", "road_secondary", "road_tertiary",
      "road_residential", "road_default">>
RoadFields == {road_fields[i] : i \in 1 .. Len(road_fields)}
edge_theme ==
    [f \in ThemeFields |->
        IF f \in RoadFields
        THEN Str(<<"#", "0", "0", "0", "0", "0",
                   DIGITS[1 + CHOOSE i \in 1 .. Len(road_fields) : road_fields[i] = f]>>)
        ELSE IF f = "name" THEN Str(<<"T">>) ELSE field_default(f)]

InitEdges ==
    /\ files = <<>>
    /\ InitRest
    /\ themes_dir = <<>>
    /\ fn \in [op : {""}, args : {<<G>> : G \in EdgeGraphs}, ret : {<<>>}]

GetEdgeColors ==
    /\ fn.op = "" /\ Len(fn.args) = 1
    /\ fn' = [fn EXCEPT !.op = "_get_edge_colors",
                        !.ret = get_edge_colors(fn.args[1], edge_theme)]
    /\ UNCHANGED <<cacheVars, fetchVars, ncalls, fad, themeVars, posterVars, cop, cli>>

GetEdgeWidths ==
    /\ fn.op = "" /\ Len(fn.args) = 1
    /\ fn' = [fn EXCEPT !.op = "_get_edge_widths",
                        !.ret = get_edge_widths(fn.args[1])]
    /\ UNCHANGED <<cacheVars, fetchVars, ncalls, fad, themeVars, posterVars, cop, cli>>

NextEdges == GetEdgeColors \/ GetEdgeWidths

SpecEdges == InitEdges /\ [][NextEdges]_vars

\* The edge has no road tag.
tag_missing(data) == "highway" \notin DOMAIN data

\* The road tag value that stands for the edge: the value itself, or the
\* first entry of a multi-valued tag.  Defined for an edge with a tag that is
\* not an empty list.
tag_value(data) ==
    IF data["highway"].t = "list" THEN data["highway"].l[1] ELSE data["highway"].s

tag_given(data) ==
    /\ ~tag_missing(data)
    /\ data["highway"].t = "list" => Len(data["highway"].l) > 0

\* The six tiers as theme colors, and the widths of the tiers.
tier_color(f) == edge_theme[f]
tier_width(f) ==
    CASE f = "road_motorway" -> 12
      [] f = "road_primary" -> 10
      [] f = "road_secondary" -> 8
      [] f = "road_tertiary" -> 6
      [] OTHER -> 4

\* C19 as stated: every edge gets the color of exactly one of the six tiers,
\* a multi-valued tag counts by its first entry, and an edge whose tag is
\* unrecognized or missing gets the default tier.
EdgeTierCoverage ==
    fn.op = "_get_edge_colors" =>
        \A i \in 1 .. Len(fn.args[1]) :
            LET data == fn.args[1][i] IN
            /\ \E f \in RoadFields :
                 /\ fn.ret[i] = tier_color(f)
                 /\ \A g \in RoadFields \ {f} : fn.ret[i] # tier_color(g)
            /\ tag_given(data) =>
                 fn.ret[i] = tier_color(edge_color_field(tag_value(data)))
            /\ (tag_missing(data) \/ (tag_given(data) /\ tag_value(data) \notin NamedHighways))
                 => fn.ret[i] = tier_color("road_default")

\* C19 amended: every edge gets the color and the width of exactly one of
\* the six tiers, a multi-valued tag counts by its first entry, an edge with
\* an unrecognized tag gets the default tier, and an edge with a missing tag
\* or an empty list of tags gets the tier of "unclassified", the residential
\* tier.
EdgeTierCoverageUnclassified ==
    /\ fn.op = "_get_edge_colors" =>
        \A i \in 1 .. Len(fn.args[1]) :
            LET data == fn.args[1][i] IN
            /\ \E f \in RoadFields :
                 /\ fn.ret[i] = tier_color(f)
                 /\ \A g \in RoadFields \ {f} : fn.ret[i] # tier_color(g)
            /\ tag_given(data) =>
                 fn.ret[i] = tier_color(edge_color_field(tag_value(data)))
            /\ (tag_given(data) /\ tag_value(data) \notin NamedHighways)
                 => fn.ret[i] = tier_color("road_default")
            /\ ~tag_given(data) => fn.ret[i] = tier_color("road_residential")
    /\ fn.op = "_get_edge_widths" =>
        \A i \in 1 .. Len(fn.args[1]) :
            LET data == fn.args[1][i] IN
            /\ tag_given(data) =>
                 fn.ret[i] = tier_width(edge_color_field(tag_value(data)))
            /\ ~tag_given(data) => fn.ret[i] = tier_width("road_residential")

\* C19 witness: the colors of a graph with an edge without a tag and an edge
\* with the tags motorway_link and footway, in this order.
MultiValuedEdgeColored ==
    /\ fn.op = "_get_edge_colors"
    /\ \E i, j \in 1 .. Len(fn.args[1]) :
         /\ tag_missing(fn.args[1][i])
         /\ fn.args[1][j] = ("highway" :> HighwayList(<<"motorway_link", "footway">>))
         /\ fn.ret[j] = tier_color("road_motorway")

----------------------------------------------------------------------------
(* The crop window of the renderer (renderer.py, SpecCrop).  Coordinates   *)
(* and figure sizes are whole numbers; the numbers the code derives from   *)
(* them are kept as exact fractions <<numerator, denominator>> in lowest   *)
(* terms with a positive denominator.                                      *)

RECURSIVE gcd(_, _)
gcd(a, b) == IF b = 0 THEN a ELSE gcd(b, a % b)
abs(a) == IF a < 0 THEN 0 - a ELSE a

\* n / d for d # 0.
frac(n, d) ==
    LET g == gcd(abs(n), abs(d))
    IN IF d < 0 THEN <<(0 - n) \div g, (0 - d) \div g>> ELSE <<n \div g, d \div g>>
frac_add(p, q) == frac(p[1] * q[2] + q[1] * p[2], p[2] * q[2])
frac_sub(p, q) == frac(p[1] * q[2] - q[1] * p[2], p[2] * q[2])
frac_mul(p, q) == frac(p[1] * q[1], p[2] * q[2])
\* p / q for q # 0.
frac_div(p, q) == frac(p[1] * q[2], p[2] * q[1])
frac_lt(p, q) == p[1] * q[2] < q[1] * p[2]

min(S) == CHOOSE a \in S : \A b \in S : a <= b
max(S) == CHOOSE a \in S : \A b \in S : b <= a

\* StandardRenderer._get_crop_limits: nodes is the set of the (x, y) of the
\* nodes of G, size is fig.get_size_inches().  x_range / y_range raises
\* ZeroDivisionError when all nodes have the same y.
get_crop_limits(nodes, size) ==
    LET minx == min({n[1] : n \in nodes})
        maxx == max({n[1] : n \in nodes})
        miny == min({n[2] : n \in nodes})
        maxy == max({n[2] : n \in nodes})
        x_range == maxx - minx
        y_range == maxy - miny
        desired_aspect == frac(size[1], size[2])
    IN IF y_range = 0
       THEN [raised |-> "ZeroDivisionError", xlim |-> <<>>, ylim |-> <<>>]
       ELSE
       LET current_aspect == frac(x_range, y_range)
           center_x == frac(minx + maxx, 2)
           center_y == frac(miny + maxy, 2)
           desired_x_range == frac_mul(frac(y_range, 1), desired_aspect)
           desired_y_range == frac_div(frac(x_range, 1), desired_aspect)
       IN IF frac_lt(desired_aspect, current_aspect)
          THEN [raised |-> "",
                xlim |-> <<frac_sub(center_x, frac_div(desired_x_range, frac(2, 1))),
                           frac_add(center_x, frac_div(desired_x_range, frac(2, 1)))>>,
                ylim |-> <<frac(miny, 1), frac(maxy, 1)>>]
          ELSE IF frac_lt(current_aspect, desired_aspect)
          THEN [raised |-> "",
                xlim |-> <<frac(minx, 1), frac(maxx, 1)>>,
                ylim |-> <<frac_sub(center_y, frac_div(desired_y_range, frac(2, 1))),
                           frac_add(center_y, frac_div(desired_y_range, frac(2, 1)))>>]
          ELSE [raised |-> "",
                xlim |-> <<frac(minx, 1), frac(maxx, 1)>>,
                ylim |-> <<frac(miny, 1), frac(maxy, 1)>>]

MaxCoord == 2
MaxNodes == 2

\* Projected graphs with at least one node, and figure sizes in inches.
CropPoints == (0 .. MaxCoord) \X (0 .. MaxCoord)
CropNodes == {N \in SUBSET CropPoints : Cardinality(N) \in 1 .. MaxNodes}
FigureSizes == {<<3, 4>>, <<1, 1>>, <<2, 1>>}

InitCrop ==
    /\ files = <<>>
    /\ InitRest
    /\ themes_dir = <<>>
    /\ fn \in [op : {""}, args : CropNodes \X FigureSizes, ret : {<<>>}]

GetCropLimits ==
    /\ fn.op = "" /\ Len(fn.args) = 2
    /\ fn' = [fn EXCEPT !.op = "_get_crop_limits",
                        !.ret = get_crop_limits(fn.args[1], fn.args[2])]
    /\ UNCHANGED <<cacheVars, fetchVars, ncalls, fad, themeVars, posterVars, cop, cli>>

NextCrop == GetCropLimits

SpecCrop == InitCrop /\ [][NextCrop]_vars

\* The window has the aspect of the figure: width / height = size[1] / size[2].
has_aspect(r, size) ==
    /\ r.raised = ""
    /\ frac_sub(r.ylim[2], r.ylim[1]) # frac(0, 1)
    /\ frac_div(frac_sub(r.xlim[2], r.xlim[1]), frac_sub(r.ylim[2], r.ylim[1]))
         = frac(size[1], size[2])

\* C18 as stated: for any bounding box of the nodes and any figure size, the
\* crop window that _get_crop_limits computes has width / height equal to
\* figure width / figure height.
CropAspect ==
    fn.op = "_get_crop_limits" => has_aspect(fn.ret, fn.args[2])

\* The bounding box of the nodes has a positive width and a positive height.
proper_box(nodes) ==
    /\ \E m, n \in nodes : m[1] # n[1]
    /\ \E m, n \in nodes : m[2] # n[2]

\* For a bounding box of positive width and height the crop window has the
\* aspect of the figure.
CropAspectOfProperBoxes ==
    (fn.op = "_get_crop_limits" /\ proper_box(fn.args[1]))
        => has_aspect(fn.ret, fn.args[2])

\* The bounding box of the nodes, as <<minx, maxx, miny, maxy>>.
bounding_box(nodes) ==
    <<min({n[1] : n \in nodes}), max({n[1] : n \in nodes}),
      min({n[2] : n \in nodes}), max({n[2] : n \in nodes})>>

frac_le(p, q) == p[1] * q[2] <= q[1] * p[2]

\* The window r lies inside the box b, has the center of b, and one of its
\* axes has the full extent of b.
symmetric_crop(r, b) ==
    /\ frac_le(frac(b[1], 1), r.xlim[1]) /\ frac_le(r.xlim[2], frac(b[2], 1))
    /\ frac_le(frac(b[3], 1), r.ylim[1]) /\ frac_le(r.ylim[2], frac(b[4], 1))
    /\ frac_le(r.xlim[1], r.xlim[2]) /\ frac_le(r.ylim[1], r.ylim[2])
    /\ frac_add(r.xlim[1], r.xlim[2]) = frac(b[1] + b[2], 1)
    /\ frac_add(r.ylim[1], r.ylim[2]) = frac(b[3] + b[4], 1)
    /\ \/ r.xlim = <<frac(b[1], 1), frac(b[2], 1)>>
       \/ r.ylim = <<frac(b[3], 1), frac(b[4], 1)>>

\* C30 as stated: for every bounding box of the nodes, one of zero width or
\* zero height included, _get_crop_limits returns without error a window
\* that lies inside the box, has the center of the box and keeps the full
\* extent of the axis that is not cropped.
CropSymmetric ==
    fn.op = "_get_crop_limits" =>
        /\ fn.ret.raised = ""
        /\ symmetric_crop(fn.ret, bounding_box(fn.args[1]))

\* Whenever _get_crop_limits returns, the window is a symmetric crop.
CropSymmetricWhenReturned ==
    (fn.op = "_get_crop_limits" /\ fn.ret.raised = "")
        => symmetric_crop(fn.ret, bounding_box(fn.args[1]))

----------------------------------------------------------------------------
(* The rate limiters of several instances (SpecLimit).  fn.args[1] holds   *)
(* the objects: two geocoders and two fetchers, each with the timestamps   *)
(* its __init__ sets to None (<<>>); fn.ret holds, for each thread, the    *)
(* call of _rate_limit_wait it is in or has made last: the calls of the    *)
(* threads interleave between the read, the sleep and the stamp.           *)

LimiterObjects ==
    [g1 |-> [last_request_time |-> <<>>],
     g2 |-> [last_request_time |-> <<>>],
     f1 |-> [last_graph_request |-> <<>>, last_features_request |-> <<>>],
     f2 |-> [last_graph_request |-> <<>>, last_features_request |-> <<>>]]

\* The calls: geocoder._rate_limit_wait() and fetcher._rate_limit_wait(type).
LimiterCalls ==
    ({"g1", "g2"} \X {"geocode"}) \cup ({"f1", "f2"} \X {"graph", "features"})

\* A limiter that keeps one timestamp for both request types of a fetcher.
timer_of_graph(request_type) ==
    IF request_type = "geocode" THEN "last_request_time" ELSE "last_graph_request"

\* The attribute a request type reads and writes: the geocoder has one, the
\* fetcher takes last_graph_request for "graph" and last_features_request
\* otherwise.
timer_of(request_type) ==
    CASE request_type = "geocode" -> "last_request_time"
      [] request_type = "graph" -> "last_graph_request"
      [] OTHER -> "last_features_request"

\* The threads that call the limiters; asyncio.to_thread runs the calls of one
\* fetcher in several threads.
LimitThreads == {"w1", "w2"}

\* A thread that is not in _rate_limit_wait.
IdleLimit ==
    [pc |-> "idle", object |-> "", request_type |-> "", t |-> 0, seen |-> <<>>,
     wake |-> 0, before |-> <<>>, after |-> <<>>, stamped |-> 0]

\* _rate_limit_wait up to time.sleep: the ticks to sleep, from the timestamp
\* of the request type in the object and the clock t.
rate_limit_wait(self, request_type, t) ==
    sleep_time(self[timer_of(request_type)], t, limit_of(request_type))

\* _rate_limit_wait, last statement: "self.last_..._request = time.time()"
\* with the clock at t.
rate_limit_stamped(self, request_type, t) ==
    [self EXCEPT ![timer_of(request_type)] = <<t>>]

InitLimit ==
    /\ files = <<>>
    /\ InitRest
    /\ themes_dir = <<>>
    /\ fn = [op |-> "", args |-> <<LimiterObjects>>,
             ret |-> [th \in LimitThreads |-> IdleLimit]]

limit_step == UNCHANGED <<cacheVars, limiterVars, thr, issued, starts, request_failed,
                          fad, themeVars, posterVars, cop, cli>>

\* A thread calls _rate_limit_wait, pause ticks after the last step of the
\* run: it reads the timestamp and the clock and decides whether to sleep.
LimitRead(th, o, request_type, pause) ==
    /\ Len(fn.args) = 1
    /\ fn.ret[th].pc \in {"idle", "done"}
    /\ ncalls < MaxCalls
    /\ ncalls' = ncalls + 1
    /\ now' = now + pause
    /\ LET d == rate_limit_wait(fn.args[1][o], request_type, now') IN
       fn' = [fn EXCEPT !.op = "_rate_limit_wait",
                        !.ret[th] = [IdleLimit EXCEPT
                                       !.pc = IF d > 0 THEN "sleep" ELSE "stamp",
                                       !.object = o, !.request_type = request_type,
                                       !.t = now', !.seen = fn.args[1],
                                       !.wake = now' + d]]
    /\ limit_step

\* time.sleep(limit - elapsed) returns: no earlier than asked.
LimitSleep(th, over) ==
    /\ Len(fn.args) = 1
    /\ fn.ret[th].pc = "sleep"
    /\ now' = IF now > fn.ret[th].wake + over THEN now ELSE fn.ret[th].wake + over
    /\ fn' = [fn EXCEPT !.ret[th].pc = "stamp"]
    /\ limit_step /\ UNCHANGED ncalls

\* The thread records time.time() in the attribute of its request type.
LimitStamp(th) ==
    /\ Len(fn.args) = 1
    /\ fn.ret[th].pc = "stamp"
    /\ LET f == fn.ret[th]
           objects == [fn.args[1] EXCEPT
                         ![f.object] = rate_limit_stamped(@, f.request_type, now)]
       IN fn' = [fn EXCEPT !.args = <<objects>>,
                           !.ret[th] = [f EXCEPT !.pc = "done", !.before = fn.args[1],
                                                 !.after = objects, !.stamped = now]]
    /\ limit_step /\ UNCHANGED <<now, ncalls>>

LimiterRead ==
    \E th \in LimitThreads, c \in LimiterCalls, pause \in {0} \cup Pauses :
        LimitRead(th, c[1], c[2], pause)

LimiterSleep == \E th \in LimitThreads, over \in 0 .. MaxOversleep : LimitSleep(th, over)

LimiterStamp == \E th \in LimitThreads : LimitStamp(th)

NextLimit ==
    \/ LimiterRead
    \/ LimiterSleep
    \/ LimiterStamp

SpecLimit == InitLimit /\ [][NextLimit]_vars

\* The timestamps of an object, by request class.
class_timestamp(objects, o, cls) ==
    IF cls = "geocode" THEN objects[o].last_request_time
    ELSE IF cls = "graph" THEN objects[o].last_graph_request
    ELSE objects[o].last_features_request

\* C25: a call of _rate_limit_wait sleeps for what is left of the interval
\* since the last request of its own class in its own instance, as it reads
\* it (not at all when there was none), records the time after the sleep
\* there, and leaves the timestamp of every other class and of every other
\* instance as it was.
TimersIndependent ==
    fn.op = "_rate_limit_wait" =>
        \A th \in LimitThreads :
            LET f == fn.ret[th] IN
            /\ f.pc # "idle" =>
                  LET own == class_timestamp(f.seen, f.object, f.request_type) IN
                  f.wake - f.t =
                      IF Len(own) = 0 \/ f.t - own[1] >= limit_of(f.request_type)
                      THEN 0
                      ELSE limit_of(f.request_type) - (f.t - own[1])
            /\ f.pc = "done" =>
                  /\ f.stamped >= f.wake
                  /\ class_timestamp(f.after, f.object, f.request_type) = <<f.stamped>>
                  /\ \A c \in LimiterCalls :
                        c # <<f.object, f.request_type>> =>
                           class_timestamp(f.after, c[1], c[2])
                              = class_timestamp(f.before, c[1], c[2])

\* C25 witness: a features request of a fetcher did not sleep although the
\* graph timer of the same fetcher and the features timer of the other
\* fetcher had been set less than an interval before it.
FeaturesRequestDidNotWait ==
    /\ fn.op = "_rate_limit_wait"
    /\ \E th \in LimitThreads :
          LET f == fn.ret[th] IN
          /\ f.pc = "done"
          /\ f.object = "f1" /\ f.request_type = "features"
          /\ f.wake = f.t /\ f.stamped = f.t
          /\ Len(f.seen["f1"].last_graph_request) = 1
          /\ f.t - f.seen["f1"].last_graph_request[1] < features_rate_limit
          /\ Len(f.seen["f2"].last_features_request) = 1
          /\ f.t - f.seen["f2"].last_features_request[1] < features_rate_limit

----------------------------------------------------------------------------
(* The size of the city name (typography.py, SpecTitle).  Sizes are exact  *)
(* fractions, in points.                                                   *)

\* A sizing that scales a long name down without a smallest size.
city_font_size_unfloored(city_name, base_size) ==
    IF Len(city_name) > 10
    THEN frac_mul(frac(base_size, 1), frac(10, Len(city_name)))
    ELSE frac(base_size, 1)

\* TypographyManager.get_city_font: the size of the FontProperties returned.
city_font_size(city_name, base_size) ==
    LET char_count == Len(city_name) IN
    IF char_count > 10
    THEN LET scale_factor == frac(10, char_count)
             scaled == frac_mul(frac(base_size, 1), scale_factor)
         IN IF frac_lt(scaled, frac(24, 1)) THEN frac(24, 1) ELSE scaled
    ELSE frac(base_size, 1)

MaxTitle == 30

\* City names of every length up to MaxTitle, and base sizes.
TitleInputs == {[i \in 1 .. n |-> "x"] : n \in 0 .. MaxTitle}
BaseSizes == {60, 48, 20}

InitTitle ==
    /\ files = <<>>
    /\ InitRest
    /\ themes_dir = <<>>
    /\ fn \in [op : {""}, args : TitleInputs \X BaseSizes, ret : {<<>>}]

GetCityFont ==
    /\ fn.op = "" /\ Len(fn.args) = 2
    /\ fn' = [fn EXCEPT !.op = "get_city_font",
                        !.ret = city_font_size(fn.args[1], fn.args[2])]
    /\ UNCHANGED <<cacheVars, fetchVars, ncalls, fad, themeVars, posterVars, cop, cli>>

NextTitle == GetCityFont

SpecTitle == InitTitle /\ [][NextTitle]_vars

\* C22: a title of at most 10 characters gets the base size; a longer one
\* gets base_size * 10 / length, or 24 when that is smaller; with base 60 a
\* title of 20 characters gets 30.
TitleScaling ==
    fn.op = "get_city_font" =>
        LET n == Len(fn.args[1])
            base == fn.args[2]
        IN /\ n <= 10 => fn.ret = <<base, 1>>
           /\ (n > 10 /\ base * 10 >= 24 * n) => fn.ret[1] * n = base * 10 * fn.ret[2]
           /\ (n > 10 /\ base * 10 < 24 * n) => fn.ret = <<24, 1>>
           /\ (n = 20 /\ base = 60) => fn.ret = <<30, 1>>

\* C22 witness: with base 60, a title of 20 characters was sized at 30.
TwentyCharacterTitle ==
    /\ fn.op = "get_city_font"
    /\ Len(fn.args[1]) = 20 /\ fn.args[2] = 60
    /\ fn.ret = <<30, 1>>

====
